---- MODULE Spec2Model ----
(***************************************************************************)
(* Continuity: directive dispatcher (ContinuityAPI.processResponse), the   *)
(* record store (StorageManager over a StorageAdapter) and the similarity  *)
(* index (VectorDatabase), as a state machine.                             *)
(*                                                                         *)
(* One step of the machine is one run-to-completion segment of the         *)
(* JavaScript code: the code between two `await`s.  A call of a            *)
(* StorageAdapter method takes effect where it is called; the promise it   *)
(* returns settles later, and until the awaiting code resumes any other    *)
(* pending continuation (a floating cleanupOldEntries, a clock tick) may   *)
(* run.                                                                    *)
(***************************************************************************)
EXTENDS Integers, Sequences, FiniteSets, TLC

(* ------------------------------ bounds -------------------------------- *)
\* segments of text supplied in one behaviour, over all processResponse calls
MaxOps == 3
\* readings of the millisecond clock: new Date() yields 0..MaxTime
MaxTime == 1
\* segments (directive blocks and plain text) of one processResponse text
MaxCmds == 2
\* configured maxEntriesPerChat ranges over 0..MaxLimit
MaxLimit == 1
\* vectors of an index searched on its own
MaxVectors == 3
\* records of a store queried on its own
MaxEntries == 3
\* pieces of a text handed to the parser on its own
MaxText == 5
\* callers that use one StorageManager at the same time
MaxCallers == 2
MaxListeners == 3

(* ------------------------------ values -------------------------------- *)
\* JavaScript undefined and null
Absent == "undefined"
Null == "null"
\* a directive without <id>
NoId == -1
\* a directive with <id></id>: the empty string
EmptyId == 0
\* a directive without <limit>
NoLimit == -1

Chats == {"A", "B"}
\* the values uuidv4() returns, in the order it returns them
Ids == 1..MaxOps

\* !!x of a string parameter
Truthy(x) == x # Absent /\ x # ""

Keys == {"k1", "k2"}
\* `user_data.${key}`
UserDataCategory(key) ==
  CASE key = "k1" -> "user_data.k1"
    [] key = "k2" -> "user_data.k2"
    [] OTHER -> "user_data."
\* category.startsWith('user_data.')
IsUserData(category) == category \in {"user_data.", "user_data.k1", "user_data.k2"}

(* -------------------------- stable sorting ---------------------------- *)
\* Array.prototype.sort is stable: equal keys keep their input order.
\* entries.sort((a, b) => a.modifiedAt.getTime() - b.modifiedAt.getTime())
RECURSIVE InsertByModifiedAsc(_, _)
InsertByModifiedAsc(x, s) ==
  IF s = <<>> THEN <<x>>
  ELSE IF x.modifiedAt < s[Len(s)].modifiedAt
       THEN Append(InsertByModifiedAsc(x, SubSeq(s, 1, Len(s) - 1)), s[Len(s)])
       ELSE Append(s, x)

RECURSIVE SortByModifiedAsc(_)
SortByModifiedAsc(s) ==
  IF s = <<>> THEN <<>>
  ELSE InsertByModifiedAsc(s[Len(s)], SortByModifiedAsc(SubSeq(s, 1, Len(s) - 1)))

\* entries.sort((a, b) => b.createdAt.getTime() - a.createdAt.getTime())
RECURSIVE InsertByCreatedDesc(_, _)
InsertByCreatedDesc(x, s) ==
  IF s = <<>> THEN <<x>>
  ELSE IF x.createdAt > s[Len(s)].createdAt
       THEN Append(InsertByCreatedDesc(x, SubSeq(s, 1, Len(s) - 1)), s[Len(s)])
       ELSE Append(s, x)

RECURSIVE SortByCreatedDesc(_)
SortByCreatedDesc(s) ==
  IF s = <<>> THEN <<>>
  ELSE InsertByCreatedDesc(s[Len(s)], SortByCreatedDesc(SubSeq(s, 1, Len(s) - 1)))

\* Array.prototype.slice(0, n)
Slice0(s, n) ==
  IF n >= Len(s) THEN s
  ELSE IF n >= 0 THEN SubSeq(s, 1, n)
  ELSE IF Len(s) + n > 0 THEN SubSeq(s, 1, Len(s) + n) ELSE <<>>

\* Array.prototype.map
IdsOf(s) == [i \in 1..Len(s) |-> s[i].id]

(* --------------------- MemoryStorageAdapter (Map) --------------------- *)
\* The Map is the sequence of its values in insertion order.
HasId(E, id) == \E i \in 1..Len(E) : E[i].id = id

\* Map.set: an existing key keeps its place, a new key goes last
save(E, entry) ==
  IF HasId(E, entry.id)
  THEN [i \in 1..Len(E) |-> IF E[i].id = entry.id THEN entry ELSE E[i]]
  ELSE Append(E, entry)

\* a lookup that makes up a blank entry for an unknown id
getByIdOrBlank(E, id) ==
  IF HasId(E, id)
  THEN [t |-> "entry", entry |-> E[CHOOSE i \in 1..Len(E) : E[i].id = id]]
  ELSE [t |-> "entry",
        entry |-> [id |-> id, chatId |-> "A", context |-> "", category |-> Absent,
                   priority |-> Absent, lineNumber |-> Absent,
                   createdAt |-> 0, modifiedAt |-> 0, version |-> 0]]

\* this.entries.get(id) || null
getById(E, id) ==
  IF HasId(E, id)
  THEN [t |-> "entry", entry |-> E[CHOOSE i \in 1..Len(E) : E[i].id = id]]
  ELSE [t |-> "null"]

getByChatId(E, chat) == SelectSeq(E, LAMBDA e : e.chatId = chat)

delete(E, id) == SelectSeq(E, LAMBDA e : e.id # id)

\* QueryOptions: every field is optional
NoRange == [set |-> FALSE, start |-> 0, end |-> 0]
NoOptions ==
  [category |-> Absent, priority |-> Absent, createdBetween |-> NoRange,
   limit |-> NoLimit, sortBy |-> Absent, sortDirection |-> Absent]

\* the Priority values and their UTF-16 code units
Priorities == {"low", "medium", "high"}
CodeUnits(p) ==
  CASE p = "low" -> <<108, 111, 119>>
    [] p = "medium" -> <<109, 101, 100, 105, 117, 109>>
    [] p = "high" -> <<104, 105, 103, 104>>

\* s < t of two strings: by the first code unit that differs
RECURSIVE StringLess(_, _)
StringLess(s, t) ==
  IF t = <<>> THEN FALSE
  ELSE IF s = <<>> THEN TRUE
  ELSE IF s[1] # t[1] THEN s[1] < t[1]
  ELSE StringLess(Tail(s), Tail(t))

\* a[sortField] < b[sortField]: dates by their time value, strings by their
\* code units, and false as soon as one side is undefined
FieldLess(sortField, a, b) ==
  CASE sortField = "priority" ->
         /\ a.priority # Absent
         /\ b.priority # Absent
         /\ StringLess(CodeUnits(a.priority), CodeUnits(b.priority))
    [] sortField = "createdAt" -> a.createdAt < b.createdAt
    [] sortField = "modifiedAt" -> a.modifiedAt < b.modifiedAt

\* the comparator of query
compare(sortField, sortDirection, a, b) ==
  IF sortDirection = "asc"
  THEN IF FieldLess(sortField, b, a) THEN 1
       ELSE IF FieldLess(sortField, a, b) THEN -1 ELSE 0
  ELSE IF FieldLess(sortField, a, b) THEN 1
       ELSE IF FieldLess(sortField, b, a) THEN -1 ELSE 0

\* results.sort(comparator) of a consistent comparator: stable
RECURSIVE InsertByCompare(_, _, _, _)
InsertByCompare(sortField, sortDirection, x, s) ==
  IF s = <<>> THEN <<x>>
  ELSE IF compare(sortField, sortDirection, s[Len(s)], x) > 0
       THEN Append(InsertByCompare(sortField, sortDirection, x, SubSeq(s, 1, Len(s) - 1)),
                   s[Len(s)])
       ELSE Append(s, x)

RECURSIVE SortByCompare(_, _, _)
SortByCompare(sortField, sortDirection, s) ==
  IF s = <<>> THEN <<>>
  ELSE InsertByCompare(sortField, sortDirection, s[Len(s)],
                       SortByCompare(sortField, sortDirection, SubSeq(s, 1, Len(s) - 1)))

\* The comparator is consistent unless an undefined priority (equal to every
\* other) meets two priorities that differ.
Consistent(sortField, s) ==
  \/ sortField # "priority"
  \/ \A i \in 1..Len(s) : s[i].priority # Absent
  \/ \A i, j \in 1..Len(s) :
       s[i].priority # Absent /\ s[j].priority # Absent => s[i].priority = s[j].priority

\* the outcomes of results.sort(comparator): the stable order, or with an
\* inconsistent comparator an order the implementation defines
sort(sortField, sortDirection, s) ==
  IF Consistent(sortField, s)
  THEN {SortByCompare(sortField, sortDirection, s)}
  ELSE {[i \in 1..Len(s) |-> s[p[i]]] : p \in Permutations(1..Len(s))}

\* the records that pass the filters of query, in insertion order
filtered(E, chat, options) ==
  LET byChat == SelectSeq(E, LAMBDA e : e.chatId = chat)
      byCategory == IF Truthy(options.category)
                    THEN SelectSeq(byChat, LAMBDA e : e.category = options.category)
                    ELSE byChat
      byPriority == IF Truthy(options.priority)
                    THEN SelectSeq(byCategory, LAMBDA e : e.priority = options.priority)
                    ELSE byCategory
  IN  IF options.createdBetween.set
      THEN SelectSeq(byPriority, LAMBDA e : /\ e.createdAt >= options.createdBetween.start
                                            /\ e.createdAt <= options.createdBetween.end)
      ELSE byPriority

\* options.sortDirection || 'desc'
DirectionOf(options) ==
  IF options.sortDirection = Absent THEN "desc" ELSE options.sortDirection

\* a query that cuts the results to the limit before it sorts them
queryCapFirst(E, chat, options) ==
  LET results == filtered(E, chat, options)
      capped == IF options.limit > 0 THEN Slice0(results, options.limit) ELSE results
  IN  IF options.sortBy # Absent
      THEN sort(options.sortBy, DirectionOf(options), capped)
      ELSE {capped}

\* MemoryStorageAdapter.query: the lists it can return
query(E, chat, options) ==
  LET results == filtered(E, chat, options)
      sorted == IF options.sortBy # Absent
                THEN sort(options.sortBy, DirectionOf(options), results)
                ELSE {results}
  IN  { IF options.limit > 0 THEN Slice0(r, options.limit) ELSE r : r \in sorted }

(* ------------------------------ XmlParser ----------------------------- *)
\* A text is a sequence of segments: plain text, or one directive block
\* <type>...</type> with the fields found inside it.
NoParams ==
  [id |-> NoId, context |-> Absent, category |-> Absent, priority |-> Absent,
   lineNumber |-> Absent, key |-> Absent, value |-> Absent, query |-> Absent,
   limit |-> NoLimit]

Block(type, params) == [type |-> type, params |-> params]

Plain == Block("plain", NoParams)

\* the id directives name: that of the first record created, which is an
\* unknown id before that record exists and after it is removed
TargetIds == {1}

AddBlocks ==
  { Block("add_summary", [NoParams EXCEPT !.context = c]) : c \in {"", "ab"} }

EditBlocks ==
  { Block("edit_summary", [NoParams EXCEPT !.id = i, !.context = "b"]) : i \in TargetIds }

DeleteBlocks ==
  { Block("delete_summary", [NoParams EXCEPT !.id = i]) : i \in {1} }

QueryBlocks == { Block("query_summary", NoParams) }

SaveBlocks ==
  { Block("save_user_data", [NoParams EXCEPT !.key = "k1", !.value = v]) :
      v \in {"ab", "b"} }

RetrieveBlocks ==
  { Block("retrieve_user_data", [NoParams EXCEPT !.key = "k1"]),
    Block("retrieve_user_data", [NoParams EXCEPT !.query = "ab"]) }

Segments ==
  {Plain} \cup AddBlocks \cup EditBlocks \cup DeleteBlocks \cup QueryBlocks
          \cup SaveBlocks \cup RetrieveBlocks

\* parse: one command per directive block, in text order
parse(text) == SelectSeq(text, LAMBDA b : b.type # "plain")

\* removeCommands: the text without its directive blocks
removeCommands(text) == SelectSeq(text, LAMBDA b : b.type = "plain")

\* The content of a block as written: the text between the tags of each
\* field, or Absent for a field that is not written.
NoContent ==
  [id |-> NoId, context |-> Absent, category |-> Absent, priority |-> Absent]

\* String.prototype.trim and toLowerCase on the tokens of the checked texts
Trim(token) == IF token = " low " THEN "low" ELSE token
ToLowerCase(token) ==
  CASE token = "HIGH" -> "high"
    [] token = "Medium" -> "medium"
    [] OTHER -> token

\* a parser that keeps every priority token
parseCommandParamsAnyPriority(content) ==
  [NoParams EXCEPT
     !.id = content.id,
     !.context = IF content.context # Absent THEN Trim(content.context) ELSE Absent,
     !.category = IF content.category # Absent THEN Trim(content.category) ELSE Absent,
     !.priority = IF content.priority # Absent
                  THEN ToLowerCase(Trim(content.priority)) ELSE Absent]

\* parseCommandParams on the fields id, context, category, priority: each
\* value trimmed, the priority lower-cased and kept only if it is a Priority
parseCommandParams(content) ==
  [NoParams EXCEPT
     !.id = content.id,
     !.context = IF content.context # Absent THEN Trim(content.context) ELSE Absent,
     !.category = IF content.category # Absent THEN Trim(content.category) ELSE Absent,
     !.priority = IF /\ content.priority # Absent
                     /\ ToLowerCase(Trim(content.priority)) \in Priorities
                  THEN ToLowerCase(Trim(content.priority)) ELSE Absent]

\* a directive block given by what is written in it
RawBlock(type, content) ==
  [type |-> type, params |-> parseCommandParams(content), content |-> content]

\* !!command.params.id
TruthyId(id) == id # NoId /\ id # EmptyId

\* a validation that accepts retrieve_user_data only with a key
validateCommandKeyOnly(command) ==
  LET p == command.params IN
  CASE command.type = "add_summary" -> Truthy(p.context)
    [] command.type = "edit_summary" ->
         TruthyId(p.id) /\ (Truthy(p.context) \/ Truthy(p.category) \/ Truthy(p.priority))
    [] command.type = "delete_summary" -> TruthyId(p.id)
    [] command.type = "query_summary" -> TRUE
    [] command.type = "save_user_data" -> Truthy(p.key) /\ p.value # Absent
    [] command.type = "retrieve_user_data" -> Truthy(p.key)
    [] OTHER -> FALSE

\* a validation that wants a non-empty value for save_user_data
validateCommandTruthyValue(command) ==
  LET p == command.params IN
  CASE command.type = "add_summary" -> Truthy(p.context)
    [] command.type = "edit_summary" ->
         TruthyId(p.id) /\ (Truthy(p.context) \/ Truthy(p.category) \/ Truthy(p.priority))
    [] command.type = "delete_summary" -> TruthyId(p.id)
    [] command.type = "query_summary" -> TRUE
    [] command.type = "save_user_data" -> Truthy(p.key) /\ Truthy(p.value)
    [] command.type = "retrieve_user_data" -> Truthy(p.key) \/ Truthy(p.query)
    [] OTHER -> FALSE

validateCommand(command) ==
  LET p == command.params IN
  CASE command.type = "add_summary" -> Truthy(p.context)
    [] command.type = "edit_summary" ->
         TruthyId(p.id) /\ (Truthy(p.context) \/ Truthy(p.category) \/ Truthy(p.priority))
    [] command.type = "delete_summary" -> TruthyId(p.id)
    [] command.type = "query_summary" -> TRUE
    [] command.type = "save_user_data" -> Truthy(p.key) /\ p.value # Absent
    [] command.type = "retrieve_user_data" -> Truthy(p.key) \/ Truthy(p.query)
    [] OTHER -> FALSE

(* ----------------------- XmlParser on raw text ------------------------ *)
\* The regular expression works on characters.  Here a raw text is a sequence
\* of pieces, each a run of characters: a complete opening or closing tag, a
\* fragment of a tag, or a character that belongs to no tag.  The text is the
\* concatenation of its pieces.
CommandTags == {"add_summary", "query_summary"}
Open(tag) == IF tag = "add_summary" THEN "<add_summary>" ELSE "<query_summary>"
Close(tag) == IF tag = "add_summary" THEN "</add_summary>" ELSE "</query_summary>"
Pieces ==
  { "x", "<add_", "summary>", "<ADD_SUMMARY>", "</ADD_SUMMARY>", "<foo>", "</foo>" }
    \cup { Open(tag) : tag \in CommandTags } \cup { Close(tag) : tag \in CommandTags }

\* The characters of a text, tag by tag: "<add_" followed by "summary>" reads
\* as the tag <add_summary>; no other two pieces join to a tag.
RECURSIVE Lex(_)
Lex(text) ==
  IF Len(text) < 2 THEN text
  ELSE IF text[1] = "<add_" /\ text[2] = "summary>"
       THEN <<Open("add_summary")>> \o Lex(SubSeq(text, 3, Len(text)))
       ELSE <<text[1]>> \o Lex(Tail(text))

NoMatch == [found |-> FALSE, index |-> 0, lastIndex |-> 0, tag |-> Absent]

\* the least of a non-empty set of positions
Least(S) == CHOOSE i \in S : \A j \in S : i <= j

\* a match that runs to the last closing tag of the kind
execGreedy(tokens, from) ==
  LET opens == { i \in from..Len(tokens) :
                   \E tag \in CommandTags :
                     /\ tokens[i] = Open(tag)
                     /\ \E j \in (i + 1)..Len(tokens) : tokens[j] = Close(tag) }
  IN  IF opens = {} THEN NoMatch
      ELSE LET i == Least(opens)
               tag == CHOOSE t \in CommandTags : tokens[i] = Open(t)
               j == CHOOSE k \in (i + 1)..Len(tokens) :
                      /\ tokens[k] = Close(tag)
                      /\ \A l \in (k + 1)..Len(tokens) : tokens[l] # Close(tag)
           IN  [found |-> TRUE, index |-> i, lastIndex |-> j + 1, tag |-> tag]

\* /<(add_summary|...)>([\s\S]*?)<\/\1>/g from position `from`: the first
\* opening tag that has a closing tag of its kind after it, up to the first
\* such closing tag (case-sensitive, lazy, back-reference)
exec(tokens, from) ==
  LET opens == { i \in from..Len(tokens) :
                   \E tag \in CommandTags :
                     /\ tokens[i] = Open(tag)
                     /\ \E j \in (i + 1)..Len(tokens) : tokens[j] = Close(tag) }
  IN  IF opens = {} THEN NoMatch
      ELSE LET i == Least(opens)
               tag == CHOOSE t \in CommandTags : tokens[i] = Open(t)
               j == Least({ k \in (i + 1)..Len(tokens) : tokens[k] = Close(tag) })
           IN  [found |-> TRUE, index |-> i, lastIndex |-> j + 1, tag |-> tag]

\* the matches of the global expression, each search starting at lastIndex
RECURSIVE matchAll(_, _)
matchAll(tokens, from) ==
  LET match == exec(tokens, from) IN
  IF match.found THEN <<match>> \o matchAll(tokens, match.lastIndex) ELSE <<>>

\* parse: one command per match, with the type and the content of the block
parseText(text) ==
  LET tokens == Lex(text)
      found == matchAll(tokens, 1)
  IN  [n \in 1..Len(found) |->
         [type |-> found[n].tag,
          content |-> SubSeq(tokens, found[n].index + 1, found[n].lastIndex - 2),
          index |-> found[n].index, lastIndex |-> found[n].lastIndex]]

\* the text between position `from` and the next match, then the rest
RECURSIVE replaceFrom(_, _)
replaceFrom(tokens, from) ==
  LET match == exec(tokens, from) IN
  IF match.found
  THEN SubSeq(tokens, from, match.index - 1) \o replaceFrom(tokens, match.lastIndex)
  ELSE SubSeq(tokens, from, Len(tokens))

\* a replace that stops after the first match
removeFirstCommand(text) ==
  LET tokens == Lex(text)
      match == exec(tokens, 1)
  IN  IF match.found
      THEN SubSeq(tokens, 1, match.index - 1) \o SubSeq(tokens, match.lastIndex, Len(tokens))
      ELSE tokens

\* removeCommands: text.replace(/.../g, '')
removeCommandsText(text) == replaceFrom(Lex(text), 1)

(* ------------------------------- state -------------------------------- *)
VARIABLES
  maxEntriesPerChat,  \* StorageManager.options.maxEntriesPerChat
  enableAutoCleanup,  \* StorageManager.options.enableAutoCleanup
  entries,            \* the adapter's records, in Map insertion order
  clock,              \* what new Date() returns
  nextId,             \* the next value of uuidv4()
  vectors,            \* vectorDb.vectors: the shared index
  ragVectors,         \* the vectors of the RagsManager's own VectorDatabase
  pc,                 \* where processResponse stands
  rags,               \* ContinuityAPI.options.rags.enabled
  chatId,             \* effectiveChatId of the call
  text,               \* the text of the call
  commands,           \* parser.parse(text)
  idx,                \* position of the for-loop in commands
  results,            \* results so far
  events,             \* the calls of listeners emitEvent has made during the call
  local,              \* the value the awaited call settles with
  out,                \* the cleaned text returned by the call
  cleanup,            \* the floating cleanupOldEntries calls, by triggering record
  ops,                \* segments of text supplied so far
  hist,               \* history: what was created, deleted and evicted so far
  pending,            \* the StorageManager calls of concurrent callers, by caller
  adapterOption,      \* options.storage.adapter of the ContinuityAPI in use
  eventListeners      \* the registered listeners, in the order of registration

\* what no step of the dispatcher changes: the options, and the calls other
\* callers have in flight
options == <<maxEntriesPerChat, enableAutoCleanup, pending, adapterOption, eventListeners>>
config == <<options, ops>>
call == <<rags, chatId, text, commands>>
index == <<vectors, ragVectors>>
vars == <<maxEntriesPerChat, enableAutoCleanup, entries, clock, nextId, vectors,
          ragVectors, pc, rags, chatId, text, commands, idx, results, events,
          local, out, cleanup, ops, hist, pending, adapterOption,
          eventListeners>>

NoLocal == [t |-> "none"]
\* a listener of the host: one that returns, or one that throws on every event
Listener(throws) == [throws |-> throws]
NoTask == [st |-> "idle"]
NoBefore == [n |-> -1, busy |-> FALSE]
Callers == 1..MaxCallers
NoCall == [st |-> "none"]

\* the number of records of a conversation
Count(chat) == Len(getByChatId(entries, chat))

\* a cleanupOldEntries call has not finished
Busy == \E k \in Ids : cleanup[k].st # "idle"

Init ==
  /\ enableAutoCleanup \in BOOLEAN
  /\ maxEntriesPerChat \in (IF enableAutoCleanup THEN 0..MaxLimit ELSE {MaxLimit})
  /\ entries = <<>>
  /\ clock = 0
  /\ nextId = 1
  /\ vectors = <<>>
  /\ ragVectors = <<>>
  /\ pc = "idle"
  /\ rags \in BOOLEAN
  /\ chatId = "A"
  /\ text = <<>>
  /\ commands = <<>>
  /\ idx = 1
  /\ results = <<>>
  /\ events = <<>>
  /\ local = NoLocal
  /\ out = <<>>
  /\ cleanup = [k \in Ids |-> NoTask]
  /\ ops = 0
  /\ hist = [created |-> [c \in Chats |-> 0], deleted |-> FALSE, evicted |-> {},
             before |-> NoBefore]
  /\ pending = [c \in Callers |-> NoCall]
  /\ adapterOption = Null
  /\ eventListeners = <<Listener(FALSE)>>

\* The millisecond clock advances.  Only createSummary and updateSummary read
\* it, in the segments that start at "loop", "update_got", "import_hits" and
\* "imports_next": an advance
\* anywhere else reads the same as one just before the next of these.
Tick ==
  /\ clock < MaxTime
  /\ pc \in {"loop", "update_got", "import_hits", "imports_next"}
  /\ clock' = clock + 1
  /\ UNCHANGED <<config, hist, entries, nextId, index, pc, call, idx, results, events,
                 local, out, cleanup>>

(* --------------------------- StorageManager --------------------------- *)
\* an entry that starts at version 0
NewEntryVersionZero(chat, context, category, priority, lineNumber) ==
  [id |-> nextId, chatId |-> chat, context |-> context, category |-> category,
   priority |-> priority, lineNumber |-> lineNumber,
   createdAt |-> clock, modifiedAt |-> clock, version |-> 0]

\* the entry createSummary builds
NewEntry(chat, context, category, priority, lineNumber) ==
  [id |-> nextId, chatId |-> chat, context |-> context, category |-> category,
   priority |-> priority, lineNumber |-> lineNumber,
   createdAt |-> clock, modifiedAt |-> clock, version |-> 1]

\* an update that keeps the version
UpdatedEntryKeepsVersion(entry, p) ==
  [entry EXCEPT !.context = IF p.context # Absent THEN p.context ELSE @,
                !.category = IF p.category # Absent THEN p.category ELSE @,
                !.priority = IF p.priority # Absent THEN p.priority ELSE @,
                !.modifiedAt = clock]

\* an update that writes context, category and priority whether or not the
\* directive supplies them
UpdatedEntryAllFields(entry, p) ==
  [entry EXCEPT !.context = p.context,
                !.category = p.category,
                !.priority = p.priority,
                !.modifiedAt = clock,
                !.version = @ + 1]

\* the entry updateSummary builds: { ...entry, ...updates, modifiedAt, version }
UpdatedEntry(entry, p) ==
  [entry EXCEPT !.context = IF p.context # Absent THEN p.context ELSE @,
                !.category = IF p.category # Absent THEN p.category ELSE @,
                !.priority = IF p.priority # Absent THEN p.priority ELSE @,
                !.modifiedAt = clock,
                !.version = @ + 1]

\* a cleanup that takes the newest entries: sortedEntries.slice(maxEntriesPerChat)
entriesToDeleteNewest(snap) ==
  IF Len(snap) <= maxEntriesPerChat THEN <<>>
  ELSE SubSeq(SortByModifiedAsc(snap), maxEntriesPerChat + 1, Len(snap))

\* cleanupOldEntries: sortedEntries.slice(0, entries.length - maxEntriesPerChat)
entriesToDelete(snap) ==
  IF Len(snap) <= maxEntriesPerChat THEN <<>>
  ELSE Slice0(SortByModifiedAsc(snap), Len(snap) - maxEntriesPerChat)

\* history: cleanupOldEntries of record k removes record id
Evict(k, id) ==
  IF HasId(entries, id)
  THEN LET e == getById(entries, id).entry IN
       [hist EXCEPT !.evicted = @ \cup {[id |-> id, by |-> k, chatId |-> e.chatId,
                                          modifiedAt |-> e.modifiedAt]}]
  ELSE hist

\* cleanupOldEntries after `await this.adapter.getByChatId(chatId)`: returns when
\* the scope is within the limit, else calls adapter.delete for the oldest entry
cleanupOldEntries(k) ==
  /\ cleanup[k].st = "listed"
  /\ LET todo == entriesToDelete(cleanup[k].snap) IN
     IF todo = <<>>
     THEN /\ cleanup' = [cleanup EXCEPT ![k] = NoTask]
          /\ UNCHANGED <<entries, hist>>
     ELSE /\ entries' = delete(entries, todo[1].id)
          /\ hist' = Evict(k, todo[1].id)
          /\ cleanup' = [cleanup EXCEPT ![k] =
               IF Len(todo) = 1 THEN NoTask
               ELSE [st |-> "deleting", todo |-> Tail(todo)]]
  /\ UNCHANGED <<config, clock, nextId, index, pc, call, idx, results, events,
                 local, out>>

\* the for-loop of cleanupOldEntries after `await this.adapter.delete(entry.id)`
cleanupDeleteNext(k) ==
  /\ cleanup[k].st = "deleting"
  /\ LET todo == cleanup[k].todo IN
     /\ entries' = delete(entries, todo[1].id)
     /\ hist' = Evict(k, todo[1].id)
     /\ cleanup' = [cleanup EXCEPT ![k] =
          IF Len(todo) = 1 THEN NoTask
          ELSE [st |-> "deleting", todo |-> Tail(todo)]]
  /\ UNCHANGED <<config, clock, nextId, index, pc, call, idx, results, events,
                 local, out>>

\* an adapter call of cleanupOldEntries rejects: the floating promise rejects
\* and nobody handles it
cleanupRejected(k) ==
  /\ cleanup[k].st # "idle"
  /\ cleanup' = [cleanup EXCEPT ![k] = NoTask]
  /\ UNCHANGED <<config, hist, entries, clock, nextId, index, pc, call, idx, results,
                 events, local, out>>

\* a vector entry whose metadata leaves out the category
SummaryVectorNoCategory(entry) ==
  [text |-> entry.context, summaryId |-> entry.id, chatId |-> entry.chatId,
   category |-> Absent, priority |-> entry.priority,
   createdAt |-> entry.createdAt, modifiedAt |-> entry.modifiedAt]

(* --------------------------- VectorDatabase --------------------------- *)
\* addSummaryEntry: addVector(entry.context, metadata of entry)
SummaryVector(entry) ==
  [text |-> entry.context, summaryId |-> entry.id, chatId |-> entry.chatId,
   category |-> entry.category, priority |-> entry.priority,
   createdAt |-> entry.createdAt, modifiedAt |-> entry.modifiedAt]

\* charCodeAt(i) - 97 of the letters of a text
CharCodes(txt) ==
  CASE txt = "ab" -> <<0, 1>>
    [] txt = "b" -> <<1>>
    [] txt = "a" -> <<0>>
    [] OTHER -> <<>>

\* textToVector before its normalisation: the count of each letter a..z
\* (cosine similarity does not change when a vector is scaled)
textToVector(txt) ==
  LET codes == CharCodes(txt) IN
  [c \in 0..25 |-> Cardinality({i \in 1..Len(codes) : codes[i] = c})]

RECURSIVE DotUpTo(_, _, _)
DotUpTo(a, b, n) == IF n < 0 THEN 0 ELSE a[n] * b[n] + DotUpTo(a, b, n - 1)
Dot(a, b) == DotUpTo(a, b, 25)

\* options.rags.similarityThreshold = 0.5 = ThresholdNum / ThresholdDen
ThresholdNum == 1
ThresholdDen == 2
\* options.rags.maxResults
MaxResults == 5

\* the similarity threshold of the API options, as a fraction
SimilarityThreshold == [num |-> ThresholdNum, den |-> ThresholdDen]

\* cosineSimilarity(a, b), squared and kept as a fraction n / d: the vectors
\* are letter counts, so no score is negative and squaring keeps the order;
\* a zero norm scores 0
cosineSimilarity(a, b) ==
  IF Dot(a, a) = 0 \/ Dot(b, b) = 0
  THEN [n |-> 0, d |-> 1]
  ELSE [n |-> Dot(a, b) * Dot(a, b), d |-> Dot(a, a) * Dot(b, b)]

\* result.score >= threshold, for a threshold that is not negative
AtLeast(score, threshold) ==
  score.n * threshold.den * threshold.den >= threshold.num * threshold.num * score.d

\* x > y for two scores
Greater(x, y) == x.n * y.d > y.n * x.d

\* cosineSimilarity(q, v) >= options.rags.similarityThreshold
ScoreAtLeastThreshold(q, v) == AtLeast(cosineSimilarity(q, v), SimilarityThreshold)

\* cosineSimilarity(q, a) > cosineSimilarity(q, b)
ScoreGreater(q, a, b) == Greater(cosineSimilarity(q, a), cosineSimilarity(q, b))

\* results.sort((a, b) => b.score - a.score): stable, descending score
RECURSIVE InsertByScoreDesc(_, _, _)
InsertByScoreDesc(q, x, s) ==
  IF s = <<>> THEN <<x>>
  ELSE IF ScoreGreater(q, textToVector(x.text), textToVector(s[Len(s)].text))
       THEN Append(InsertByScoreDesc(q, x, SubSeq(s, 1, Len(s) - 1)), s[Len(s)])
       ELSE Append(s, x)

RECURSIVE SortByScoreDesc(_, _)
SortByScoreDesc(q, s) ==
  IF s = <<>> THEN <<>>
  ELSE InsertByScoreDesc(q, s[Len(s)], SortByScoreDesc(q, SubSeq(s, 1, Len(s) - 1)))

\* a metadata filter that lets the vectors of every conversation through
MatchesAnyChat(v, metadataFilter) ==
  metadataFilter.userData => IsUserData(v.category)

\* the metadata filters of the callers: the conversation of the vector and,
\* where userData is set, category.startsWith('user_data.')
Matches(v, metadataFilter) ==
  /\ v.chatId = metadataFilter.chatId
  /\ (metadataFilter.userData => IsUserData(v.category))

\* a search that leaves the filtered results in the order of the index
searchWithFilterUnsorted(V, txt, metadataFilter, limit, threshold) ==
  LET q == textToVector(txt)
      candidates == SelectSeq(V, LAMBDA v : Matches(v, metadataFilter))
      scored == SelectSeq(candidates,
                  LAMBDA v : AtLeast(cosineSimilarity(q, textToVector(v.text)), threshold))
  IN  Slice0(scored, limit)

\* searchWithFilter(text, metadataFilter, limit, threshold)
searchWithFilter(V, txt, metadataFilter, limit, threshold) ==
  LET q == textToVector(txt)
      candidates == SelectSeq(V, LAMBDA v : Matches(v, metadataFilter))
      scored == SelectSeq(candidates,
                  LAMBDA v : AtLeast(cosineSimilarity(q, textToVector(v.text)), threshold))
  IN  Slice0(SortByScoreDesc(q, scored), limit)

\* search(text, limit, threshold)
search(V, txt, limit, threshold) ==
  LET q == textToVector(txt)
      scored == SelectSeq(V,
                  LAMBDA v : AtLeast(cosineSimilarity(q, textToVector(v.text)), threshold))
  IN  Slice0(SortByScoreDesc(q, scored), limit)

(* ---------------------------- ContinuityAPI --------------------------- *)
Command == commands[idx]
Params == commands[idx].params

\* emitEvent calls the listeners in turn with the event; what a listener
\* throws is caught and the loop goes on
emitEvent(log, type) ==
  log \o [l \in 1..Len(eventListeners) |->
           [type |-> type, of |-> idx, to |-> l, threw |-> eventListeners[l].throws]]

\* processResponse after `await this.executeCommand(...)` settled with a value:
\* results.push(result), COMMAND_PROCESSED, next command
Processed(result, log) ==
  /\ results' = Append(results, result)
  /\ events' = emitEvent(log, "command_processed")
  /\ idx' = idx + 1
  /\ pc' = "loop"
  /\ local' = NoLocal

\* the awaited call rejects: the promise of executeCommand rejects with it
Throw ==
  /\ pc' = "thrown"
  /\ local' = NoLocal
  /\ UNCHANGED <<idx, results, events>>

\* a catch block that rethrows: the call itself rejects
CaughtRethrown ==
  /\ pc' = "rejected"
  /\ UNCHANGED <<results, events, idx, local>>

\* the catch block of processResponse: ERROR event, results.push({ error }),
\* next command
Caught ==
  /\ results' = Append(results, [of |-> idx, t |-> "error"])
  /\ events' = emitEvent(events, "error")
  /\ idx' = idx + 1
  /\ pc' = "loop"
  /\ local' = NoLocal

\* processResponse after `await this.executeCommand(...)` rejected
processResponseCatch ==
  /\ pc = "thrown"
  /\ Caught
  /\ UNCHANGED <<config, hist, entries, clock, nextId, index, call, out, cleanup>>

\* processResponse(text, chatId).  The text is supplied segment by segment (readSegment): what the
\* for-loop does at a position depends only on the commands up to it, so
\* drawing the rest of the text later yields the same behaviours.
processResponse(chat) ==
  /\ pc = "idle"
  /\ text' = <<>>
  /\ chatId' = chat
  /\ commands' = parse(<<>>)
  /\ pc' = "loop"
  /\ UNCHANGED <<config, hist, rags, entries, clock, nextId, index, idx, results, events,
                 local, out, cleanup>>

\* the next segment of the text of the call
readSegment(b) ==
  /\ pc = "loop"
  /\ idx > Len(commands)
  /\ Len(text) < MaxCmds
  /\ ops < MaxOps
  /\ ops' = ops + 1
  /\ text' = Append(text, b)
  /\ commands' = parse(Append(text, b))
  /\ UNCHANGED <<options, hist, entries, clock, nextId, index, pc, rags, chatId, idx,
                 results, events, local, out, cleanup>>

\* the for-loop is over: removeCommands and return
processResponseReturn ==
  /\ pc = "loop"
  /\ idx > Len(commands)
  /\ out' = removeCommands(text)
  /\ pc' = "done"
  /\ UNCHANGED <<config, hist, entries, clock, nextId, index, call, idx, results,
                 events, local, cleanup>>

\* the caller has the returned value; the next call starts afresh
nextCall ==
  /\ pc = "done"
  /\ pc' = "idle"
  /\ text' = <<>>
  /\ commands' = <<>>
  /\ results' = <<>>
  /\ events' = <<>>
  /\ idx' = 1
  /\ out' = <<>>
  /\ chatId' = "A"
  /\ UNCHANGED <<config, hist, rags, entries, clock, nextId, index, local, cleanup>>

\* an invalid command that is reported as processed
skipInvalidAsProcessed ==
  /\ pc = "loop"
  /\ idx <= Len(commands)
  /\ ~validateCommand(Command)
  /\ events' = emitEvent(events, "command_processed")
  /\ idx' = idx + 1
  /\ UNCHANGED <<config, hist, entries, clock, nextId, index, pc, call, results,
                 local, out, cleanup>>

\* validateCommand fails: ERROR event and `continue`
skipInvalid ==
  /\ pc = "loop"
  /\ idx <= Len(commands)
  /\ ~validateCommand(Command)
  /\ events' = emitEvent(events, "error")
  /\ idx' = idx + 1
  /\ UNCHANGED <<config, hist, entries, clock, nextId, index, pc, call, results,
                 local, out, cleanup>>

Dispatch(type) ==
  /\ pc = "loop"
  /\ idx <= Len(commands)
  /\ validateCommand(Command)
  /\ Command.type = type

\* createSummary up to `await this.adapter.save(entry)`
createSummaryCall(entry, ok) ==
  IF ok
  THEN /\ entries' = save(entries, entry)
       /\ nextId' = nextId + 1
       /\ local' = [t |-> "entry", entry |-> entry]
       /\ pc' = "create_saved"
       /\ hist' = [hist EXCEPT !.created[entry.chatId] = @ + 1,
                               !.before = [n |-> Count(entry.chatId), busy |-> Busy]]
       /\ UNCHANGED <<idx, results, events>>
  ELSE /\ Throw
       /\ nextId' = nextId + 1
       /\ UNCHANGED <<entries, hist>>

\* handleAddSummary up to the await inside createSummary
handleAddSummary ==
  /\ Dispatch("add_summary")
  /\ \E ok \in BOOLEAN :
       createSummaryCall(NewEntry(chatId, Params.context, Params.category,
                                  Params.priority, Params.lineNumber), ok)
  /\ UNCHANGED <<config, clock, index, call, out, cleanup>>

\* handleSaveUserData up to the await inside createSummary
handleSaveUserData ==
  /\ Dispatch("save_user_data")
  /\ \E ok \in BOOLEAN :
       createSummaryCall(NewEntry(chatId, Params.value, UserDataCategory(Params.key),
                                  "medium", Absent), ok)
  /\ UNCHANGED <<config, clock, index, call, out, cleanup>>

\* the snapshot cleanupOldEntries takes: adapter.getByChatId(chatId)
Listed(chat) ==
  [st |-> "listed",
   snap |-> [i \in 1..Count(chat) |->
              [id |-> getByChatId(entries, chat)[i].id,
               modifiedAt |-> getByChatId(entries, chat)[i].modifiedAt]]]

\* createSummary after the save: start cleanupOldEntries without awaiting it
\* (it runs up to its first await), return savedEntry
createSummaryReturn ==
  /\ pc = "create_saved"
  /\ IF enableAutoCleanup
     THEN \E ok \in BOOLEAN :
            cleanup' = [cleanup EXCEPT ![local.entry.id] =
                          IF ok THEN Listed(local.entry.chatId) ELSE NoTask]
     ELSE UNCHANGED cleanup
  /\ pc' = "create_returned"
  /\ UNCHANGED <<config, hist, entries, clock, nextId, index, call, idx, results,
                 events, local, out>>

\* handleAddSummary after createSummary: index the entry, SUMMARY_ADDED
handleAddSummaryResume ==
  /\ pc = "create_returned"
  /\ Command.type = "add_summary"
  /\ vectors' = Append(vectors, SummaryVector(local.entry))
  /\ Processed([of |-> idx, t |-> "entry", id |-> local.entry.id],
               emitEvent(events, "summary_added"))
  /\ hist' = [hist EXCEPT !.before = NoBefore]
  /\ UNCHANGED <<config, entries, clock, nextId, ragVectors, call, out, cleanup>>

\* a handleSaveUserData that does not wait for ragsManager.addEntry
handleSaveUserDataResumeNoAwait ==
  /\ pc = "create_returned"
  /\ Command.type = "save_user_data"
  /\ IF rags
     THEN /\ UNCHANGED vectors
          /\ Processed([of |-> idx, t |-> "entry", id |-> local.entry.id],
                       emitEvent(events, "summary_added"))
     ELSE /\ vectors' = Append(vectors, SummaryVector(local.entry))
          /\ Processed([of |-> idx, t |-> "entry", id |-> local.entry.id],
                       emitEvent(events, "summary_added"))
  /\ hist' = [hist EXCEPT !.before = NoBefore]
  /\ UNCHANGED <<config, entries, clock, nextId, ragVectors, call, out, cleanup>>

\* handleSaveUserData after createSummary: with RAGs await ragsManager.addEntry
\* (its generateEmbedding call), else index the entry in the shared index
handleSaveUserDataResume ==
  /\ pc = "create_returned"
  /\ Command.type = "save_user_data"
  /\ IF rags
     THEN /\ pc' = "embedding"
          /\ UNCHANGED <<vectors, idx, results, events, local>>
     ELSE /\ vectors' = Append(vectors, SummaryVector(local.entry))
          /\ Processed([of |-> idx, t |-> "entry", id |-> local.entry.id],
                       emitEvent(events, "summary_added"))
  /\ hist' = [hist EXCEPT !.before = NoBefore]
  /\ UNCHANGED <<config, entries, clock, nextId, ragVectors, call, out, cleanup>>

\* an addEntry of a RagsManager built over the shared vector database
addEntryResumeSharedIndex ==
  /\ pc = "embedding"
  /\ \E ok \in BOOLEAN :
       IF ok
       THEN /\ vectors' = Append(vectors, SummaryVector(local.entry))
            /\ Processed([of |-> idx, t |-> "entry", id |-> local.entry.id],
                         emitEvent(events, "summary_added"))
       ELSE /\ Throw
            /\ UNCHANGED vectors
  /\ UNCHANGED <<config, hist, entries, clock, nextId, ragVectors, call, out, cleanup>>

\* RagsManager.addEntry after generateEmbedding: addVector, then the rest of
\* handleSaveUserData; a rejected embedding reaches the catch of processResponse
addEntryResume ==
  /\ pc = "embedding"
  /\ \E ok \in BOOLEAN :
       IF ok
       THEN /\ ragVectors' = Append(ragVectors, SummaryVector(local.entry))
            /\ Processed([of |-> idx, t |-> "entry", id |-> local.entry.id],
                         emitEvent(events, "summary_added"))
       ELSE /\ Throw
            /\ UNCHANGED ragVectors
  /\ UNCHANGED <<config, hist, entries, clock, nextId, vectors, call, out, cleanup>>

\* a handleEditSummary that finds only the records of the conversation of the
\* call
handleEditSummaryOwnScope ==
  /\ Dispatch("edit_summary")
  /\ \E ok \in BOOLEAN :
       IF ok
       THEN /\ local' = getById(getByChatId(entries, chatId), Params.id)
            /\ pc' = "update_got"
            /\ UNCHANGED <<idx, results, events>>
       ELSE Throw
  /\ UNCHANGED <<config, hist, entries, clock, nextId, index, call, out, cleanup>>

\* handleEditSummary up to `await this.adapter.getById(id)` in updateSummary
handleEditSummary ==
  /\ Dispatch("edit_summary")
  /\ \E ok \in BOOLEAN :
       IF ok
       THEN /\ local' = getById(entries, Params.id)
            /\ pc' = "update_got"
            /\ UNCHANGED <<idx, results, events>>
       ELSE Throw
  /\ UNCHANGED <<config, hist, entries, clock, nextId, index, call, out, cleanup>>

\* updateSummary after getById: null for an unknown id, else build the updated
\* entry and call adapter.save
updateSummaryResume ==
  /\ pc = "update_got"
  /\ IF local.t = "null"
     THEN /\ Processed([of |-> idx, t |-> "null"], events)
          /\ UNCHANGED entries
     ELSE \E ok \in BOOLEAN :
            IF ok
            THEN /\ entries' = save(entries, UpdatedEntry(local.entry, Params))
                 /\ local' = [t |-> "entry", entry |-> UpdatedEntry(local.entry, Params)]
                 /\ pc' = "update_saved"
                 /\ UNCHANGED <<idx, results, events>>
            ELSE /\ Throw
                 /\ UNCHANGED entries
  /\ UNCHANGED <<config, hist, clock, nextId, index, call, out, cleanup>>

\* handleEditSummary after updateSummary returned an entry: SUMMARY_UPDATED
handleEditSummaryResume ==
  /\ pc = "update_saved"
  /\ Processed([of |-> idx, t |-> "entry", id |-> local.entry.id],
               emitEvent(events, "summary_updated"))
  /\ UNCHANGED <<config, hist, entries, clock, nextId, index, call, out, cleanup>>

\* a handleDeleteSummary that also removes the vectors of the record
handleDeleteSummaryRemovesVector ==
  /\ Dispatch("delete_summary")
  /\ \E ok \in BOOLEAN :
       IF ok
       THEN /\ entries' = delete(entries, Params.id)
            /\ vectors' = SelectSeq(vectors, LAMBDA v : v.summaryId # Params.id)
            /\ local' = [t |-> "bool", success |-> HasId(entries, Params.id)]
            /\ pc' = "delete_called"
            /\ hist' = [hist EXCEPT !.deleted = @ \/ HasId(entries, Params.id)]
            /\ UNCHANGED <<idx, results, events>>
       ELSE /\ Throw
            /\ UNCHANGED <<entries, hist, vectors>>
  /\ UNCHANGED <<config, clock, nextId, ragVectors, call, out, cleanup>>

\* a handleDeleteSummary that reports every delete as a success
handleDeleteSummaryReportsTrue ==
  /\ Dispatch("delete_summary")
  /\ \E ok \in BOOLEAN :
       IF ok
       THEN /\ entries' = delete(entries, Params.id)
            /\ local' = [t |-> "bool", success |-> TRUE]
            /\ pc' = "delete_called"
            /\ hist' = [hist EXCEPT !.deleted = @ \/ HasId(entries, Params.id)]
            /\ UNCHANGED <<idx, results, events>>
       ELSE /\ Throw
            /\ UNCHANGED <<entries, hist>>
  /\ UNCHANGED <<config, clock, nextId, index, call, out, cleanup>>

\* handleDeleteSummary up to `await this.storage.deleteSummary(id)`
handleDeleteSummary ==
  /\ Dispatch("delete_summary")
  /\ \E ok \in BOOLEAN :
       IF ok
       THEN /\ entries' = delete(entries, Params.id)
            /\ local' = [t |-> "bool", success |-> HasId(entries, Params.id)]
            /\ pc' = "delete_called"
            /\ hist' = [hist EXCEPT !.deleted = @ \/ HasId(entries, Params.id)]
            /\ UNCHANGED <<idx, results, events>>
       ELSE /\ Throw
            /\ UNCHANGED <<entries, hist>>
  /\ UNCHANGED <<config, clock, nextId, index, call, out, cleanup>>

\* handleDeleteSummary after the delete: SUMMARY_DELETED when it succeeded
handleDeleteSummaryResume ==
  /\ pc = "delete_called"
  /\ Processed([of |-> idx, t |-> "bool", success |-> local.success],
               IF local.success THEN emitEvent(events, "summary_deleted") ELSE events)
  /\ UNCHANGED <<config, hist, entries, clock, nextId, index, call, out, cleanup>>

\* handleQuerySummary up to `await this.storage.querySummaries(...)`
handleQuerySummary ==
  /\ Dispatch("query_summary")
  /\ \E ok \in BOOLEAN :
       IF ok
       THEN /\ \E list \in query(entries, chatId,
                                  [NoOptions EXCEPT
                                     !.category = IF Truthy(Params.category)
                                                  THEN Params.category ELSE Absent,
                                     !.priority = IF Truthy(Params.priority)
                                                  THEN Params.priority ELSE Absent]) :
                 local' = [t |-> "list", list |-> list]
            /\ pc' = "query_called"
            /\ UNCHANGED <<idx, results, events>>
       ELSE Throw
  /\ UNCHANGED <<config, hist, entries, clock, nextId, index, call, out, cleanup>>

handleQuerySummaryResume ==
  /\ pc = "query_called"
  /\ Processed([of |-> idx, t |-> "list", ids |-> IdsOf(local.list)],
               events)
  /\ UNCHANGED <<config, hist, entries, clock, nextId, index, call, out, cleanup>>

\* handleRetrieveUserData with a key, up to the await of querySummaries
handleRetrieveUserDataKey ==
  /\ Dispatch("retrieve_user_data")
  /\ Truthy(Params.key)
  /\ \E ok \in BOOLEAN :
       IF ok
       THEN /\ \E list \in query(entries, chatId,
                                  [NoOptions EXCEPT !.category = UserDataCategory(Params.key)]) :
                 local' = [t |-> "list", list |-> list]
            /\ pc' = "retrieve_key"
            /\ UNCHANGED <<idx, results, events>>
       ELSE Throw
  /\ UNCHANGED <<config, hist, entries, clock, nextId, index, call, out, cleanup>>

\* a key lookup that reads entries[0] without looking at the length: the
\* TypeError of an empty list becomes an error result
KeyedResultUnguarded(key, list) ==
  IF Len(list) > 0
  THEN [of |-> idx, t |-> "keyed", key |-> key,
        value |-> SortByCreatedDesc(list)[1].context,
        id |-> SortByCreatedDesc(list)[1].id]
  ELSE [of |-> idx, t |-> "error"]

\* the result of the key lookup: the first entry after sorting by createdAt
\* descending, or value null
KeyedResult(key, list) ==
  IF Len(list) > 0
  THEN [of |-> idx, t |-> "keyed", key |-> key,
        value |-> SortByCreatedDesc(list)[1].context,
        id |-> SortByCreatedDesc(list)[1].id]
  ELSE [of |-> idx, t |-> "keyed", key |-> key, value |-> Null]

handleRetrieveUserDataKeyResume ==
  /\ pc = "retrieve_key"
  /\ Processed(KeyedResult(Params.key, local.list), events)
  /\ UNCHANGED <<config, hist, entries, clock, nextId, index, call, out, cleanup>>

\* limit || this.options.rags.maxResults || 5
EffectiveLimit(limit) == IF limit = NoLimit \/ limit = 0 THEN MaxResults ELSE limit

\* handleRetrieveUserData with a query: with RAGs, RagsManager.retrieve up to
\* its generateEmbedding await; else searchWithFilter on the shared index
handleRetrieveUserDataQuery ==
  /\ Dispatch("retrieve_user_data")
  /\ ~Truthy(Params.key)
  /\ Truthy(Params.query)
  /\ IF rags
     THEN /\ pc' = "retrieve_embedding"
          /\ UNCHANGED local
     ELSE /\ pc' = "retrieve_hits"
          /\ local' = [t |-> "hits",
                       hits |-> searchWithFilter(vectors, Params.query,
                                  [chatId |-> chatId, userData |-> TRUE],
                                  EffectiveLimit(Params.limit), SimilarityThreshold),
                       found |-> <<>>]
  /\ UNCHANGED <<config, hist, entries, clock, nextId, index, call, idx, results,
                 events, out, cleanup>>

\* RagsManager.retrieve after generateEmbedding: searchWithFilter on its own
\* index with the chatId metadata filter
retrieveResume ==
  /\ pc = "retrieve_embedding"
  /\ \E ok \in BOOLEAN :
       IF ok
       THEN /\ pc' = "retrieve_hits"
            /\ local' = [t |-> "hits",
                         hits |-> searchWithFilter(ragVectors, Params.query,
                                    [chatId |-> chatId, userData |-> FALSE],
                                    EffectiveLimit(Params.limit), SimilarityThreshold),
                         found |-> <<>>]
            /\ UNCHANGED <<idx, results, events>>
       ELSE Throw
  /\ UNCHANGED <<config, hist, entries, clock, nextId, index, call, out, cleanup>>

\* the loop over the hits: `await storage.getSummary(summaryId)`, keep the hit
\* when the record exists (and, in RagsManager.retrieve, passes the filter)
retrieveHit ==
  /\ pc = "retrieve_hits"
  /\ local.hits # <<>>
  /\ \E ok \in BOOLEAN :
       IF ok
       THEN LET id == Head(local.hits).summaryId
                got == getById(entries, id)
                keep == /\ got.t = "entry"
                        /\ (rags => IsUserData(got.entry.category))
            IN  /\ local' = [local EXCEPT
                       !.hits = Tail(@),
                       !.found = IF keep THEN Append(@, got.entry) ELSE @]
                /\ UNCHANGED <<pc, idx, results, events>>
       ELSE Throw
  /\ UNCHANGED <<config, hist, entries, clock, nextId, index, call, out, cleanup>>

retrieveDone ==
  /\ pc = "retrieve_hits"
  /\ local.hits = <<>>
  /\ Processed([of |-> idx, t |-> "hits", query |-> Params.query, ids |-> IdsOf(local.found)],
               events)
  /\ UNCHANGED <<config, hist, entries, clock, nextId, index, call, out, cleanup>>

\* the defaults of searchSimilarSummaries: limit = 5, threshold = 0.5
SearchLimit == 5
\* the defaults of importSimilarSummaries: limit = 3, threshold = 0.6
ImportLimit == 3
ImportThreshold == [num |-> 3, den |-> 5]

\* an API call outside processResponse rejects: the caller gets the rejection
Rejected ==
  /\ pc' = "idle"
  /\ local' = NoLocal

\* searchSimilarSummaries(query, chatId) up to the first await of getSummary
searchSimilarSummaries(txt, chat) ==
  /\ pc = "idle"
  /\ ops < MaxOps
  /\ ops' = ops + 1
  /\ chatId' = chat
  /\ pc' = "search_hits"
  /\ local' = [t |-> "hits",
               hits |-> searchWithFilter(vectors, txt, [chatId |-> chat, userData |-> FALSE],
                                         SearchLimit, SimilarityThreshold),
               found |-> <<>>]
  /\ UNCHANGED <<options, hist, entries, clock, nextId, index, rags, text, commands,
                 idx, results, events, out, cleanup>>

\* the loop of searchSimilarSummaries: `await this.storage.getSummary(summaryId)`,
\* keep the hit when the record exists
searchSimilarSummariesHit ==
  /\ pc = "search_hits"
  /\ local.hits # <<>>
  /\ \E ok \in BOOLEAN :
       IF ok
       THEN LET got == getById(entries, Head(local.hits).summaryId) IN
            /\ local' = [local EXCEPT
                   !.hits = Tail(@),
                   !.found = IF got.t = "entry" THEN Append(@, got.entry) ELSE @]
            /\ UNCHANGED pc
       ELSE Rejected
  /\ UNCHANGED <<config, hist, entries, clock, nextId, index, call, idx, results,
                 events, out, cleanup>>

\* searchSimilarSummaries returns summaryResults
searchSimilarSummariesReturn ==
  /\ pc = "search_hits"
  /\ local.hits = <<>>
  /\ pc' = "idle"
  /\ local' = NoLocal
  /\ UNCHANGED <<config, hist, entries, clock, nextId, index, call, idx, results,
                 events, out, cleanup>>

\* importSimilarSummaries(query, sourceChatId, targetChatId) up to the first
\* await of getSummary
importSimilarSummaries(txt, source, target) ==
  /\ pc = "idle"
  /\ ops < MaxOps
  /\ ops' = ops + 1
  /\ chatId' = source
  /\ pc' = "import_hits"
  /\ local' = [t |-> "hits",
               hits |-> searchWithFilter(vectors, txt, [chatId |-> source, userData |-> FALSE],
                                         ImportLimit, ImportThreshold),
               found |-> <<>>, target |-> target]
  /\ UNCHANGED <<options, hist, entries, clock, nextId, index, rags, text, commands,
                 idx, results, events, out, cleanup>>

\* the loop of importSimilarSummaries: getSummary, and for a record that
\* exists createSummary in the target conversation up to its adapter.save
importSimilarSummariesHit ==
  /\ pc = "import_hits"
  /\ local.hits # <<>>
  /\ \E ok \in BOOLEAN :
       LET got == getById(entries, Head(local.hits).summaryId) IN
       IF got.t = "null"
       THEN /\ IF ok
               THEN local' = [local EXCEPT !.hits = Tail(@)] /\ UNCHANGED pc
               ELSE Rejected
            /\ UNCHANGED <<entries, nextId, hist>>
       ELSE LET entry == NewEntry(local.target, got.entry.context, got.entry.category,
                                  got.entry.priority, got.entry.lineNumber) IN
            /\ nextId' = nextId + 1
            /\ IF ok
               THEN /\ entries' = save(entries, entry)
                    /\ hist' = [hist EXCEPT !.created[entry.chatId] = @ + 1]
                    /\ local' = [t |-> "hits", hits |-> local.hits, found |-> local.found,
                                 target |-> local.target, entry |-> entry]
                    /\ pc' = "import_saved"
               ELSE /\ Rejected
                    /\ UNCHANGED <<entries, hist>>
  /\ UNCHANGED <<config, clock, index, call, idx, results, events, out, cleanup>>

\* createSummary of the import after the save: start cleanupOldEntries without
\* awaiting it, return savedEntry
importCreateSummaryReturn ==
  /\ pc = "import_saved"
  /\ IF enableAutoCleanup
     THEN \E ok \in BOOLEAN :
            cleanup' = [cleanup EXCEPT ![local.entry.id] =
                          IF ok THEN Listed(local.entry.chatId) ELSE NoTask]
     ELSE UNCHANGED cleanup
  /\ pc' = "import_created"
  /\ UNCHANGED <<config, hist, entries, clock, nextId, index, call, idx, results,
                 events, local, out>>

\* importSimilarSummaries after createSummary: index the copy, push it, next hit
importSimilarSummariesResume ==
  /\ pc = "import_created"
  /\ vectors' = Append(vectors, SummaryVector(local.entry))
  /\ local' = [t |-> "hits", hits |-> Tail(local.hits),
               found |-> Append(local.found, local.entry), target |-> local.target]
  /\ pc' = "import_hits"
  /\ UNCHANGED <<config, hist, entries, clock, nextId, ragVectors, call, idx, results,
                 events, out, cleanup>>

\* importSimilarSummaries returns importedSummaries
importSimilarSummariesReturn ==
  /\ pc = "import_hits"
  /\ local.hits = <<>>
  /\ pc' = "idle"
  /\ local' = NoLocal
  /\ UNCHANGED <<config, hist, entries, clock, nextId, index, call, idx, results,
                 events, out, cleanup>>

\* filter(entry) of importSummaries: none, or (entry) => entry.priority === 'high'
PassesFilter(entry, filter) == filter = Absent \/ entry.priority = filter

\* a copy that leaves out the priority
ImportedEntryNoPriority(target, summary) ==
  NewEntry(target, summary.context, summary.category, Absent, summary.lineNumber)

\* the entry the createSummary call of importSummaries builds
ImportedEntry(target, summary) ==
  NewEntry(target, summary.context, summary.category, summary.priority,
           summary.lineNumber)

\* importSummaries(sourceChatId, targetChatId, filter) up to the await of
\* getChatSummaries: sourceSummaries and summariesToImport
importSummaries(source, target, filter) ==
  /\ pc = "idle"
  /\ local = NoLocal
  /\ ops < MaxOps
  /\ ops' = ops + 1
  /\ \E ok \in BOOLEAN :
       IF ok
       THEN /\ pc' = "imports_next"
            /\ local' = [t |-> "imports", source |-> source, target |-> target,
                         filter |-> filter,
                         sourceSummaries |-> getByChatId(entries, source),
                         todo |-> SelectSeq(getByChatId(entries, source),
                                            LAMBDA e : PassesFilter(e, filter)),
                         importedSummaries |-> <<>>]
       ELSE Rejected
  /\ UNCHANGED <<options, hist, entries, clock, nextId, index, call, idx, results, events,
                 out, cleanup>>

\* the loop of importSummaries: createSummary in the target conversation up to
\* its adapter.save
importSummariesNext ==
  /\ pc = "imports_next"
  /\ local.todo # <<>>
  /\ nextId <= MaxOps
  /\ nextId' = nextId + 1
  /\ \E ok \in BOOLEAN :
       IF ok
       THEN LET entry == ImportedEntry(local.target, Head(local.todo)) IN
            /\ entries' = save(entries, entry)
            /\ hist' = [hist EXCEPT !.created[entry.chatId] = @ + 1]
            /\ local' = [t |-> "imports", source |-> local.source, target |-> local.target,
                         filter |-> local.filter,
                         sourceSummaries |-> local.sourceSummaries, todo |-> local.todo,
                         importedSummaries |-> local.importedSummaries, entry |-> entry]
            /\ pc' = "imports_saved"
       ELSE /\ Rejected
            /\ UNCHANGED <<entries, hist>>
  /\ UNCHANGED <<config, clock, index, call, idx, results, events, out, cleanup>>

\* createSummary of the import after the save (cleanupOldEntries is started
\* and not awaited), then importedSummaries.push and the next summary
importSummariesResume ==
  /\ pc = "imports_saved"
  /\ IF enableAutoCleanup
     THEN \E ok \in BOOLEAN :
            cleanup' = [cleanup EXCEPT ![local.entry.id] =
                          IF ok THEN Listed(local.entry.chatId) ELSE NoTask]
     ELSE UNCHANGED cleanup
  /\ local' = [t |-> "imports", source |-> local.source, target |-> local.target,
               filter |-> local.filter,
               sourceSummaries |-> local.sourceSummaries, todo |-> Tail(local.todo),
               importedSummaries |-> Append(local.importedSummaries, local.entry)]
  /\ pc' = "imports_next"
  /\ UNCHANGED <<config, hist, entries, clock, nextId, index, call, idx, results,
                 events, out>>

\* importSummaries returns importedSummaries
importSummariesReturn ==
  /\ pc = "imports_next"
  /\ local.todo = <<>>
  /\ pc' = "idle"
  /\ local' = NoLocal
  /\ UNCHANGED <<config, hist, entries, clock, nextId, index, call, idx, results,
                 events, out, cleanup>>

(* --------------------------- specifications --------------------------- *)
Calls(C, S) ==
  \/ \E chat \in C : processResponse(chat)
  \/ \E b \in S : readSegment(b)
  \/ processResponseReturn
  \/ processResponseCatch
  \/ nextCall

AddSteps ==
  \/ handleAddSummary
  \/ createSummaryReturn
  \/ handleAddSummaryResume

SaveSteps ==
  \/ handleSaveUserData
  \/ createSummaryReturn
  \/ handleSaveUserDataResume

EditSteps ==
  \/ handleEditSummary
  \/ updateSummaryResume
  \/ handleEditSummaryResume

DeleteSteps ==
  \/ handleDeleteSummary
  \/ handleDeleteSummaryResume

QuerySteps ==
  \/ handleQuerySummary
  \/ handleQuerySummaryResume

RetrieveKeySteps ==
  \/ handleRetrieveUserDataKey
  \/ handleRetrieveUserDataKeyResume

RetrieveQuerySteps ==
  \/ handleRetrieveUserDataQuery
  \/ retrieveHit
  \/ retrieveDone

CleanupSteps ==
  \/ \E k \in Ids : cleanupOldEntries(k)
  \/ \E k \in Ids : cleanupDeleteNext(k)
  \/ \E k \in Ids : cleanupRejected(k)

\* The dispatcher of one ContinuityAPI instance over the shared storage
\* singleton, every directive kind, one conversation.
InitApi ==
  /\ Init
  /\ enableAutoCleanup
  /\ maxEntriesPerChat = MaxLimit

Next ==
  \/ Tick
  \/ Calls({"A"}, Segments)
  \/ skipInvalid
  \/ AddSteps
  \/ SaveSteps
  \/ addEntryResume
  \/ EditSteps
  \/ DeleteSteps
  \/ QuerySteps
  \/ RetrieveKeySteps
  \/ RetrieveQuerySteps
  \/ retrieveResume
  \/ CleanupSteps

Spec == InitApi /\ [][Next]_vars

\* The record store under every configuration, two conversations: records are
\* created, edited and deleted.
StoreSegments == AddBlocks \cup EditBlocks \cup DeleteBlocks

InitStore ==
  /\ Init
  /\ ~rags

NextStore ==
  \/ Tick
  \/ Calls(Chats, StoreSegments)
  \/ skipInvalid
  \/ AddSteps
  \/ EditSteps
  \/ DeleteSteps
  \/ CleanupSteps

SpecStore == InitStore /\ [][NextStore]_vars

\* Keyed facts: saved and retrieved by key, with and without RAGs.
FactSegments ==
  SaveBlocks \cup { Block("retrieve_user_data", [NoParams EXCEPT !.key = k]) : k \in Keys }

NextFacts ==
  \/ Tick
  \/ Calls({"A"}, FactSegments)
  \/ SaveSteps
  \/ addEntryResume
  \/ RetrieveKeySteps
  \/ CleanupSteps

SpecFacts == Init /\ [][NextFacts]_vars

\* Semantic retrieval over two conversations: records are created, deleted and
\* evicted, and looked up by retrieve_user_data with a query, by
\* searchSimilarSummaries and by importSimilarSummaries.
SearchSegments ==
  { Block("add_summary", [NoParams EXCEPT !.context = "ab"]),
    Block("save_user_data", [NoParams EXCEPT !.key = "k1", !.value = "ab"]),
    Block("retrieve_user_data", [NoParams EXCEPT !.query = "ab"]) }
    \cup DeleteBlocks

SearchSteps ==
  \/ \E chat \in Chats : searchSimilarSummaries("ab", chat)
  \/ searchSimilarSummariesHit
  \/ searchSimilarSummariesReturn

ImportSteps ==
  \/ \E source, target \in Chats : source # target /\ importSimilarSummaries("ab", source, target)
  \/ importSimilarSummariesHit
  \/ importCreateSummaryReturn
  \/ importSimilarSummariesResume
  \/ importSimilarSummariesReturn

NextSearch ==
  \/ Tick
  \/ Calls(Chats, SearchSegments)
  \/ AddSteps
  \/ SaveSteps
  \/ addEntryResume
  \/ DeleteSteps
  \/ RetrieveQuerySteps
  \/ retrieveResume
  \/ SearchSteps
  \/ ImportSteps
  \/ CleanupSteps

SpecSearch == InitApi /\ [][NextSearch]_vars

\* A store queried on its own, without eviction: records of two
\* conversations with every priority, queried with every combination of the
\* options below.
Categories == {Absent, "c1"}
Ranges == {NoRange, [set |-> TRUE, start |-> MaxTime, end |-> MaxTime]}
QueryOptions ==
  [category : {Absent, "", "c1"}, priority : {Absent, "high"}, createdBetween : Ranges,
   limit : {NoLimit} \cup 0..(MaxEntries - 2),
   sortBy : {Absent, "createdAt", "priority"},
   sortDirection : {Absent, "asc"}]

\* storage.createSummary(chat, "ab", category, priority) as a whole, at a
\* reading of the clock not before the last one
createSummary(chat, category, priority) ==
  /\ pc = "idle"
  /\ local = NoLocal
  /\ Len(entries) < MaxEntries
  /\ clock' \in {t \in 0..MaxTime : t >= clock /\ t <= clock + 1}
  /\ entries' = save(entries, [NewEntry(chat, "ab", category, priority, Absent) EXCEPT
                                 !.createdAt = clock', !.modifiedAt = clock'])
  /\ nextId' = nextId + 1
  /\ UNCHANGED <<config, hist, index, pc, call, idx, results, events, local, out,
                 cleanup>>

\* storage.querySummaries(chat, options)
querySummaries(chat, queryOptions) ==
  /\ pc = "idle"
  /\ local = NoLocal
  /\ \E r \in query(entries, chat, queryOptions) :
       local' = [t |-> "query", chatId |-> chat, options |-> queryOptions, results |-> r]
  /\ UNCHANGED <<config, hist, entries, clock, nextId, index, pc, call, idx, results,
                 events, out, cleanup>>

querySummariesReturn ==
  /\ local.t = "query"
  /\ local' = NoLocal
  /\ UNCHANGED <<config, hist, entries, clock, nextId, index, pc, call, idx, results,
                 events, out, cleanup>>

NextQuery ==
  \/ \E category \in Categories, priority \in Priorities \cup {Absent} :
       /\ category # Absent => priority \in {"high", Absent}
       /\ createSummary("A", category, priority)
  \/ createSummary("B", "c1", "high")
  \/ \E queryOptions \in QueryOptions : querySummaries("A", queryOptions)
  \/ querySummariesReturn

InitQuery ==
  /\ InitStore
  /\ ~enableAutoCleanup

SpecQuery == InitQuery /\ [][NextQuery]_vars

\* The parser on its own: a raw text is parsed, the directive blocks are
\* removed from it, and the text that is left is parsed again.
RECURSIVE RawTexts(_)
RawTexts(n) ==
  IF n = 0 THEN {<<>>}
  ELSE RawTexts(n - 1) \cup { Append(t, p) : t \in { u \in RawTexts(n - 1) : Len(u) = n - 1 },
                                              p \in Pieces }

InitParser ==
  /\ enableAutoCleanup = TRUE
  /\ maxEntriesPerChat = MaxLimit
  /\ entries = <<>>
  /\ clock = 0
  /\ nextId = 1
  /\ vectors = <<>>
  /\ ragVectors = <<>>
  /\ pc = "idle"
  /\ rags = FALSE
  /\ chatId = "A"
  /\ text \in RawTexts(MaxText)
  /\ commands = <<>>
  /\ idx = 1
  /\ results = <<>>
  /\ events = <<>>
  /\ local = NoLocal
  /\ out = <<>>
  /\ cleanup = [k \in Ids |-> NoTask]
  /\ ops = 0
  /\ hist = [created |-> [c \in Chats |-> 0], deleted |-> FALSE, evicted |-> {},
             before |-> NoBefore]
  /\ pending = [c \in Callers |-> NoCall]
  /\ adapterOption = Null
  /\ eventListeners = <<Listener(FALSE)>>

\* parser.parse(text)
parseCall ==
  /\ pc = "idle"
  /\ commands' = parseText(text)
  /\ pc' = "parsed"
  /\ UNCHANGED <<config, hist, entries, clock, nextId, index, rags, chatId, text, idx,
                 results, events, local, out, cleanup, ops>>

\* parser.removeCommands(text)
removeCommandsCall ==
  /\ pc = "parsed"
  /\ out' = removeCommandsText(text)
  /\ pc' = "removed"
  /\ UNCHANGED <<config, hist, entries, clock, nextId, index, call, idx, results,
                 events, local, cleanup>>

\* parser.parse(cleanedText)
parseAgain ==
  /\ pc = "removed"
  /\ local' = [t |-> "parsed", commands |-> parseText(out)]
  /\ pc' = "reparsed"
  /\ UNCHANGED <<config, hist, entries, clock, nextId, index, call, idx, results,
                 events, out, cleanup>>

NextParser ==
  \/ parseCall
  \/ removeCommandsCall
  \/ parseAgain

SpecParser == InitParser /\ [][NextParser]_vars

\* validateCommand on its own: one command of every type with every
\* combination of fields absent, empty and set.
CommandTypes ==
  {"add_summary", "edit_summary", "delete_summary", "query_summary", "save_user_data",
   "retrieve_user_data"}
Strings == {Absent, "", "ab"}
ParamsSet ==
  { [NoParams EXCEPT !.id = i, !.context = c, !.category = g, !.priority = r,
                     !.key = k, !.value = v, !.query = q] :
      i \in {NoId, EmptyId, 1}, c \in Strings, g \in {Absent, "c1"}, r \in {Absent, "high"},
      k \in {Absent, "", "k1"}, v \in Strings, q \in Strings }

InitValidate ==
  /\ enableAutoCleanup = TRUE
  /\ maxEntriesPerChat = MaxLimit
  /\ entries = <<>>
  /\ clock = 0
  /\ nextId = 1
  /\ vectors = <<>>
  /\ ragVectors = <<>>
  /\ pc = "idle"
  /\ rags = FALSE
  /\ chatId = "A"
  /\ text = <<>>
  /\ commands \in { <<Block(type, params)>> : type \in CommandTypes, params \in ParamsSet }
  /\ idx = 1
  /\ results = <<>>
  /\ events = <<>>
  /\ local = NoLocal
  /\ out = <<>>
  /\ cleanup = [k \in Ids |-> NoTask]
  /\ ops = 0
  /\ hist = [created |-> [c \in Chats |-> 0], deleted |-> FALSE, evicted |-> {},
             before |-> NoBefore]
  /\ pending = [c \in Callers |-> NoCall]
  /\ adapterOption = Null
  /\ eventListeners = <<Listener(FALSE)>>

\* parser.validateCommand(command)
validateCall ==
  /\ pc = "idle"
  /\ local' = [t |-> "validated", valid |-> validateCommand(Command)]
  /\ pc' = "validated"
  /\ UNCHANGED <<config, hist, entries, clock, nextId, index, call, idx, results,
                 events, out, cleanup>>

NextValidate == validateCall

SpecValidate == InitValidate /\ [][NextValidate]_vars

\* Priority tokens: records are created and edited by directives whose
\* priority is written in several ways.
PriorityTokens == {"HIGH", " low ", "urgent", ""}
PrioritySegments ==
  { RawBlock("add_summary", [NoContent EXCEPT !.context = "ab", !.priority = token]) :
      token \in PriorityTokens \cup {Absent} }
    \cup { RawBlock("edit_summary",
                    [NoContent EXCEPT !.id = i, !.context = c, !.priority = token]) :
             i \in TargetIds, c \in {Absent, "b"}, token \in {"Medium", "urgent"} }

NextPriority ==
  \/ Tick
  \/ Calls({"A"}, PrioritySegments)
  \/ skipInvalid
  \/ AddSteps
  \/ EditSteps
  \/ CleanupSteps

SpecPriority == InitApi /\ [][NextPriority]_vars

\* One StorageManager used by several callers at once: each caller makes one
\* updateSummary or deleteSummary call, and the calls interleave at their
\* awaits.
Updates == { [NoParams EXCEPT !.context = "b"], [NoParams EXCEPT !.category = "c1"] }

\* updateSummary(id, updates) up to `await this.adapter.getById(id)`
updateSummary(c, id, updates) ==
  /\ pending[c] = NoCall
  /\ \E ok \in BOOLEAN :
       pending' = [pending EXCEPT ![c] =
                     IF ok
                     THEN [st |-> "got", op |-> "update", id |-> id, updates |-> updates,
                           got |-> getById(entries, id)]
                     ELSE [st |-> "done", op |-> "update", id |-> id, updates |-> updates,
                           result |-> [t |-> "rejected"]]]
  /\ UNCHANGED <<maxEntriesPerChat, enableAutoCleanup, ops, hist, entries, clock, nextId,
                 index, pc, call, idx, results, events, local, out, cleanup,
                 adapterOption, eventListeners>>

\* updateSummary after getById: null, or the updated entry handed to adapter.save
updateSummarySave(c) ==
  /\ pending[c].st = "got"
  /\ IF pending[c].got.t = "null"
     THEN /\ pending' = [pending EXCEPT ![c] =
                           [st |-> "done", op |-> "update", id |-> @.id,
                            updates |-> @.updates, result |-> [t |-> "null"]]]
          /\ UNCHANGED <<entries, clock>>
     ELSE /\ clock' \in {t \in 0..MaxTime : t >= clock /\ t <= clock + 1}
          /\ LET updatedEntry == [UpdatedEntry(pending[c].got.entry, pending[c].updates)
                                    EXCEPT !.modifiedAt = clock']
             IN  \E ok \in BOOLEAN :
                   IF ok
                   THEN /\ entries' = save(entries, updatedEntry)
                        /\ pending' = [pending EXCEPT ![c] =
                                         [st |-> "done", op |-> "update", id |-> @.id,
                                          updates |-> @.updates,
                                          result |-> [t |-> "entry", entry |-> updatedEntry]]]
                   ELSE /\ UNCHANGED entries
                        /\ pending' = [pending EXCEPT ![c] =
                                         [st |-> "done", op |-> "update", id |-> @.id,
                                          updates |-> @.updates,
                                          result |-> [t |-> "rejected"]]]
  /\ UNCHANGED <<maxEntriesPerChat, enableAutoCleanup, ops, hist, nextId, index, pc, call,
                 idx, results, events, local, out, cleanup,
                 adapterOption, eventListeners>>

\* deleteSummary(id): adapter.delete, whose promise the caller awaits
deleteSummary(c, id) ==
  /\ pending[c] = NoCall
  /\ \E ok \in BOOLEAN :
       IF ok
       THEN /\ entries' = delete(entries, id)
            /\ pending' = [pending EXCEPT ![c] =
                             [st |-> "done", op |-> "delete", id |-> id,
                              updates |-> NoParams,
                              result |-> [t |-> "bool", success |-> HasId(entries, id)]]]
       ELSE /\ UNCHANGED entries
            /\ pending' = [pending EXCEPT ![c] =
                             [st |-> "done", op |-> "delete", id |-> id,
                              updates |-> NoParams, result |-> [t |-> "rejected"]]]
  /\ UNCHANGED <<maxEntriesPerChat, enableAutoCleanup, ops, hist, clock, nextId, index, pc,
                 call, idx, results, events, local, out, cleanup,
                 adapterOption, eventListeners>>

NextConcurrent ==
  \/ createSummary("A", Absent, "low")
  \/ \E c \in Callers, id \in Ids, updates \in Updates : updateSummary(c, id, updates)
  \/ \E c \in Callers : updateSummarySave(c)
  \/ \E c \in Callers, id \in Ids : deleteSummary(c, id)

SpecConcurrent == InitQuery /\ [][NextConcurrent]_vars

\* The same callers making one call after another, all for the first record
\* created: the promise of a call is settled, its caller takes the result and
\* is free to call again.
callReturn(c) ==
  /\ pending[c].st = "done"
  /\ ops < MaxOps
  /\ ops' = ops + 1
  /\ pending' = [pending EXCEPT ![c] = NoCall]
  /\ UNCHANGED <<maxEntriesPerChat, enableAutoCleanup, hist, entries, clock, nextId, index,
                 pc, call, idx, results, events, local, out, cleanup, adapterOption,
                 eventListeners>>

NextVersions ==
  \/ createSummary("A", Absent, "low")
  \/ \E c \in Callers, id \in TargetIds :
       updateSummary(c, id, [NoParams EXCEPT !.context = "b"])
  \/ \E c \in Callers : updateSummarySave(c)
  \/ \E c \in Callers, id \in TargetIds : deleteSummary(c, id)
  \/ \E c \in Callers : callReturn(c)

SpecVersions == InitQuery /\ [][NextVersions]_vars

\* A ContinuityAPI constructed with a storage adapter of the host's own.
\* An adapter is known by its name; the records below are those of the
\* adapter the StorageManager of the API calls.
MemoryAdapter == "memory"
CustomAdapter == "custom"

\* new StorageManager(storageOptions): options.adapter || new MemoryStorageAdapter()
StorageManager(storageOptions) ==
  [adapter |-> IF storageOptions.adapter # Null THEN storageOptions.adapter
               ELSE MemoryAdapter]

\* the instance the module exports: new StorageManager()
storage == StorageManager([adapter |-> Null])

\* this.storage of a ContinuityAPI constructed with apiOptions: the
\* constructor assigns the exported instance
thisStorage(apiOptions) == storage

\* the records adapter a holds: those of the store if the StorageManager of
\* the API calls a, none if nothing calls it
Holds(a) == IF a = thisStorage([storage |-> [adapter |-> adapterOption]]).adapter
            THEN entries ELSE <<>>

\* new ContinuityAPI({storage: {adapter}}), used from then on: the
\* constructor keeps the options and changes nothing else
ContinuityAPI(adapter) ==
  /\ pc = "idle"
  /\ local = NoLocal
  /\ adapterOption = Null
  /\ adapterOption' = adapter
  /\ UNCHANGED <<maxEntriesPerChat, enableAutoCleanup, pending, ops, hist, entries,
                 clock, nextId, index, pc, call, idx, results, events, local, out,
                 cleanup, eventListeners>>

\* getSummaries(chat): this.storage.getChatSummaries(chat)
getSummaries(chat) ==
  /\ pc = "idle"
  /\ local = NoLocal
  /\ local' = [t |-> "summaries", chatId |-> chat, list |-> getByChatId(entries, chat)]
  /\ UNCHANGED <<config, hist, entries, clock, nextId, index, pc, call, idx, results,
                 events, out, cleanup>>

getSummariesReturn ==
  /\ local.t = "summaries"
  /\ local' = NoLocal
  /\ UNCHANGED <<config, hist, entries, clock, nextId, index, pc, call, idx, results,
                 events, out, cleanup>>

NextAdapter ==
  \/ ContinuityAPI(CustomAdapter)
  \/ Tick
  \/ Calls({"A"}, AddBlocks)
  \/ skipInvalid
  \/ AddSteps
  \/ getSummaries("A")
  \/ getSummariesReturn

SpecAdapter == InitQuery /\ [][NextAdapter]_vars

\* The events of the dispatcher: listeners that return and listeners that
\* throw are registered between the calls, and the directives that change
\* the store are processed with and without RAGs.

\* addEventListener(listener): this.eventListeners.push(listener)
addEventListener(listener) ==
  /\ pc = "idle"
  /\ Len(eventListeners) < MaxListeners
  /\ eventListeners' = Append(eventListeners, listener)
  /\ UNCHANGED <<maxEntriesPerChat, enableAutoCleanup, pending, adapterOption, ops,
                 hist, entries, clock, nextId, index, pc, call, idx, results, events,
                 local, out, cleanup>>

EventSegments == AddBlocks \cup EditBlocks \cup DeleteBlocks \cup SaveBlocks

InitEvents ==
  /\ Init
  /\ ~enableAutoCleanup

NextEvents ==
  \/ \E throws \in BOOLEAN : addEventListener(Listener(throws))
  \/ Tick
  \/ Calls({"A"}, EventSegments)
  \/ skipInvalid
  \/ AddSteps
  \/ SaveSteps
  \/ addEntryResume
  \/ EditSteps
  \/ DeleteSteps

SpecEvents == InitEvents /\ [][NextEvents]_vars

\* Edits that supply every combination of context, category and priority
\* (those that supply nothing but an empty context are invalid directives),
\* on records created with and without a category, a priority and a line
\* number.
EditSegments ==
  { Block("add_summary", [NoParams EXCEPT !.context = "ab"]),
    Block("add_summary", [NoParams EXCEPT !.context = "ab", !.category = "c1",
                                          !.priority = "high", !.lineNumber = 7]) }
    \cup { Block("edit_summary",
                 [NoParams EXCEPT !.id = i, !.context = c, !.category = g, !.priority = q]) :
             i \in TargetIds, c \in {Absent, "", "b"}, g \in {Absent, "c2"},
             q \in {Absent, "low"} }

NextEdit ==
  \/ Tick
  \/ Calls({"A"}, EditSegments)
  \/ skipInvalid
  \/ AddSteps
  \/ EditSteps
  \/ CleanupSteps

SpecEdit == InitStore /\ [][NextEdit]_vars

\* Records of two conversations, with and without category, priority and
\* line number, are created by add_summary directives and imported from one
\* conversation into another, or into their own, with and without a filter.
ImportSegments ==
  { Block("add_summary", [NoParams EXCEPT !.context = "ab"]),
    Block("add_summary", [NoParams EXCEPT !.context = "b", !.category = "c1",
                                          !.priority = "high", !.lineNumber = 7]) }

ImportSummariesSteps ==
  \/ \E source, target \in Chats, filter \in {Absent, "high"} :
       importSummaries(source, target, filter)
  \/ importSummariesNext
  \/ importSummariesResume
  \/ importSummariesReturn

NextImport ==
  \/ Tick
  \/ Calls(Chats, ImportSegments)
  \/ AddSteps
  \/ ImportSummariesSteps
  \/ CleanupSteps

SpecImport == InitStore /\ [][NextImport]_vars

\* Keyed facts of two conversations that are saved, given another category
\* or content by an edit, and retrieved by query, with and without RAGs.
RetrieveSegments ==
  { Block("save_user_data", [NoParams EXCEPT !.key = "k1", !.value = "ab"]),
    Block("edit_summary", [NoParams EXCEPT !.id = 1, !.category = "c2"]),
    Block("edit_summary", [NoParams EXCEPT !.id = 1, !.context = "ab"]),
    Block("retrieve_user_data", [NoParams EXCEPT !.query = "ab"]) }

NextRetrieve ==
  \/ Tick
  \/ Calls(Chats, RetrieveSegments)
  \/ SaveSteps
  \/ addEntryResume
  \/ EditSteps
  \/ RetrieveQuerySteps
  \/ retrieveResume

SpecRetrieve == InitEvents /\ [][NextRetrieve]_vars

\* Keyed facts with different contents are saved and retrieved by a query
\* that matches them with different scores, without <limit> and with the
\* limits 0, 1 and 2.
LimitSegments ==
  { Block("save_user_data", [NoParams EXCEPT !.key = "k1", !.value = v]) : v \in {"ab", "b"} }
    \cup { Block("retrieve_user_data", [NoParams EXCEPT !.query = "ab", !.limit = n]) :
             n \in {NoLimit, 0, 1, 2} }

NextLimit ==
  \/ Tick
  \/ Calls({"A"}, LimitSegments)
  \/ SaveSteps
  \/ addEntryResume
  \/ RetrieveQuerySteps
  \/ retrieveResume

SpecLimit == InitEvents /\ [][NextLimit]_vars

\* The hierarchy of a conversation. organizeHierarchy fills an object literal:
\* reading a key the object does not own finds the property of that name that
\* every object inherits.
ObjectPrototype ==
  {"constructor", "__proto__", "hasOwnProperty", "isPrototypeOf", "propertyIsEnumerable",
   "toLocaleString", "toString", "valueOf"}

\* entry.category || 'uncategorized'
HierarchyKey(entry) ==
  IF entry.category = Absent \/ entry.category = "" THEN "uncategorized" ELSE entry.category

\* priorityOrder[p] || 0
priorityOrder(p) ==
  CASE p = "high" -> 3
    [] p = "medium" -> 2
    [] p = "low" -> 1
    [] OTHER -> 0

\* Array.prototype.sort with the comparator of organizeHierarchy, which is
\* consistent: the entries by descending priorityOrder, entries of equal
\* order in the order they had
sortByPriorityOrder(list) ==
  SelectSeq(list, LAMBDA e : priorityOrder(e.priority) = 3)
    \o SelectSeq(list, LAMBDA e : priorityOrder(e.priority) = 2)
    \o SelectSeq(list, LAMBDA e : priorityOrder(e.priority) = 1)
    \o SelectSeq(list, LAMBDA e : priorityOrder(e.priority) = 0)

\* organizeHierarchy(entries): hierarchy[category] of an inherited name is
\* truthy and has no entries array, so the push on it throws a TypeError
organizeHierarchy(list) ==
  IF \E i \in 1..Len(list) : HierarchyKey(list[i]) \in ObjectPrototype
  THEN [thrown |-> TRUE, hierarchy |-> <<>>]
  ELSE [thrown |-> FALSE,
        hierarchy |->
          [category \in { HierarchyKey(list[i]) : i \in 1..Len(list) } |->
             [entries |-> sortByPriorityOrder(
                            SelectSeq(list, LAMBDA e : HierarchyKey(e) = category)),
              subcategories |-> <<>>]]]

\* getOrganizedSummaries(chatId) up to the await of getChatSummaries
getOrganizedSummaries(chat) ==
  /\ pc = "idle"
  /\ local = NoLocal
  /\ local' = [t |-> "organize", chatId |-> chat, list |-> getByChatId(entries, chat)]
  /\ UNCHANGED <<config, hist, entries, clock, nextId, index, pc, call, idx, results,
                 events, out, cleanup>>

\* getOrganizedSummaries resumes: organizeHierarchy returns or throws
getOrganizedSummariesReturn ==
  /\ local.t = "organize"
  /\ IF organizeHierarchy(local.list).thrown
     THEN Rejected
     ELSE /\ local' = NoLocal
          /\ UNCHANGED pc
  /\ UNCHANGED <<config, hist, entries, clock, nextId, index, call, idx, results,
                 events, out, cleanup>>

HierarchySegments ==
  { Block("add_summary", [NoParams EXCEPT !.context = "ab", !.category = c, !.priority = p]) :
      c \in {Absent, "c1", "constructor"}, p \in Priorities \cup {Absent} }

NextHierarchy ==
  \/ Calls({"A"}, HierarchySegments)
  \/ AddSteps
  \/ getOrganizedSummaries("A")
  \/ getOrganizedSummariesReturn

SpecHierarchy == InitStore /\ [][NextHierarchy]_vars

\* Two conversations over the one store: each call carries its chatId, and
\* every directive kind is processed, the edit and delete directives naming
\* the first record created, whichever conversation it belongs to.
ScopeSegments ==
  { Block("add_summary", [NoParams EXCEPT !.context = "ab"]),
    Block("save_user_data", [NoParams EXCEPT !.key = "k1", !.value = "ab"]) }
    \cup EditBlocks \cup DeleteBlocks \cup QueryBlocks \cup RetrieveBlocks

NextScope ==
  \/ Calls(Chats, ScopeSegments)
  \/ AddSteps
  \/ SaveSteps
  \/ addEntryResume
  \/ EditSteps
  \/ DeleteSteps
  \/ QuerySteps
  \/ RetrieveKeySteps
  \/ RetrieveQuerySteps
  \/ retrieveResume

SpecScope == InitEvents /\ [][NextScope]_vars

\* A VectorDatabase on its own: addVector, search and searchWithFilter with
\* every text, limit and threshold of a small range.
Texts == {"", "a", "b", "ab"}
Thresholds == {[num |-> n, den |-> ThresholdDen] : n \in 0..ThresholdDen}
Limits == 0..MaxVectors

\* addVector(text, metadata): push to the index
addVector(txt, chat) ==
  /\ local = NoLocal
  /\ Len(vectors) < MaxVectors
  /\ vectors' = Append(vectors,
       [text |-> txt, summaryId |-> Len(vectors) + 1, chatId |-> chat,
        category |-> Absent, priority |-> Absent, createdAt |-> clock,
        modifiedAt |-> clock])
  /\ UNCHANGED <<config, hist, entries, clock, nextId, ragVectors, pc, call, idx,
                 results, events, local, out, cleanup>>

\* a caller searches the index
searchCall(txt, limit, threshold) ==
  /\ local = NoLocal
  /\ local' = [t |-> "search", text |-> txt, limit |-> limit, threshold |-> threshold,
               of |-> vectors, results |-> search(vectors, txt, limit, threshold)]
  /\ UNCHANGED <<config, hist, entries, clock, nextId, index, pc, call, idx,
                 results, events, out, cleanup>>

\* a caller searches the vectors of one conversation
searchWithFilterCall(txt, chat, limit, threshold) ==
  /\ local = NoLocal
  /\ local' = [t |-> "search", text |-> txt, limit |-> limit, threshold |-> threshold,
               of |-> SelectSeq(vectors, LAMBDA v : v.chatId = chat),
               results |-> searchWithFilter(vectors, txt,
                             [chatId |-> chat, userData |-> FALSE], limit, threshold)]
  /\ UNCHANGED <<config, hist, entries, clock, nextId, index, pc, call, idx,
                 results, events, out, cleanup>>

\* the caller has the results
searchReturn ==
  /\ local.t = "search"
  /\ local' = NoLocal
  /\ UNCHANGED <<config, hist, entries, clock, nextId, index, pc, call, idx,
                 results, events, out, cleanup>>

NextVector ==
  \/ searchReturn
  \/ \E txt \in Texts, chat \in Chats : addVector(txt, chat)
  \/ \E txt \in Texts, limit \in Limits, threshold \in Thresholds :
       searchCall(txt, limit, threshold)
  \/ \E txt \in Texts, chat \in Chats, limit \in Limits, threshold \in Thresholds :
       searchWithFilterCall(txt, chat, limit, threshold)

InitVector ==
  /\ InitApi
  /\ ~rags

SpecVector == InitVector /\ [][NextVector]_vars

(* ------------------------------- claims ------------------------------- *)
\* C1: when processResponse returns, its results hold exactly one result per
\* directive of the text, and the i-th result is the outcome of the i-th
\* directive.
C1_OneResultPerDirective ==
  pc = "done" =>
    /\ Len(results) = Len(commands)
    /\ \A i \in 1..Len(results) : results[i].of = i

\* the step calls every listener once, in the order of registration, with an
\* event of the type for the directive at idx, and makes no other call
Emits(type) ==
  /\ Len(events') = Len(events) + Len(eventListeners)
  /\ SubSeq(events', 1, Len(events)) = events
  /\ \A l \in 1..Len(eventListeners) :
       /\ events'[Len(events) + l].type = type
       /\ events'[Len(events) + l].of = idx
       /\ events'[Len(events) + l].to = l

\* C2: when the execution of a directive throws, processResponse does not
\* reject: the exception becomes the error result of that directive, an ERROR
\* event is emitted, and the loop goes on with the next directive of the same
\* list of commands.
C2_FailureIsolated ==
  [][(pc = "thrown" /\ pc' # "thrown") =>
       /\ pc' = "loop"
       /\ results' = Append(results, [of |-> idx, t |-> "error"])
       /\ Emits("error")
       /\ idx' = idx + 1
       /\ commands' = commands]_vars

\* a call has returned whose first directive threw and whose second directive
\* was executed and created a record
C2_Witness ==
  /\ pc = "done"
  /\ Len(results) = 2
  /\ results[1] = [of |-> 1, t |-> "error"]
  /\ results[2].t = "entry"
  /\ HasId(entries, results[2].id)

\* the records of a conversation a cleanupOldEntries call has removed
EvictedOf(chat) == {e \in hist.evicted : e.chatId = chat}

\* handleAddSummary resumes after createSummary returned
AddCompletes ==
  /\ pc = "create_returned"
  /\ pc' = "loop"
  /\ Command.type = "add_summary"

\* what C3 promises of a completed add_summary: one record more than when the
\* directive was dispatched, the new record stored with version 1 and returned
AddedOne ==
  /\ Len(getByChatId(entries', chatId)) = hist.before.n + 1
  /\ local.entry.version = 1
  /\ getById(entries', local.entry.id) = [t |-> "entry", entry |-> local.entry]
  /\ results' = Append(results, [of |-> idx, t |-> "entry", id |-> local.entry.id])

UpdateSaves ==
  /\ pc = "update_got"
  /\ pc' = "update_saved"

\* C4 (as stated): every successful update yields version = previous version
\* + 1 and a modifiedAt strictly greater than the previous modifiedAt, also
\* for updates issued back to back.
C4_Original ==
  [][UpdateSaves =>
       /\ local'.entry.version = local.entry.version + 1
       /\ local'.entry.modifiedAt > local.entry.modifiedAt]_vars

\* C4 (amended): every successful update stores the record with version =
\* previous version + 1 and modifiedAt = the clock reading of the update, which
\* is not earlier than the previous modifiedAt; it is equal to it when both
\* fall in the same millisecond.
C4_VersionBumped ==
  [][UpdateSaves =>
       /\ local'.entry.version = local.entry.version + 1
       /\ local'.entry.modifiedAt = clock
       /\ local'.entry.modifiedAt >= local.entry.modifiedAt
       /\ getById(entries', local.entry.id) = local']_vars

\* a record has been updated twice, the second time in the millisecond of the
\* first and of its creation
C4_Witness ==
  /\ pc = "update_saved"
  /\ local.entry.version = 3
  /\ local.entry.modifiedAt = local.entry.createdAt

\* C5: with auto-cleanup on and limit L, once the creates have completed (the
\* call has returned) and no record was deleted by a directive, a
\* conversation that received more than L creates holds exactly L records,
\* none of them modified earlier than an evicted one; a conversation that
\* received at most L creates has lost no record.
C5_ExactlyLimitRemain ==
  (enableAutoCleanup /\ pc \in {"done", "idle"} /\ ~hist.deleted) =>
    \A c \in Chats :
      IF hist.created[c] > maxEntriesPerChat
      THEN /\ Count(c) = maxEntriesPerChat
           /\ \A e \in EvictedOf(c) : \A i \in 1..Count(c) :
                e.modifiedAt <= getByChatId(entries, c)[i].modifiedAt
      ELSE EvictedOf(c) = {}

\* C6: with auto-cleanup on, once createSummary has returned the entry of an
\* add_summary directive to its caller, the conversation holds at most
\* maxEntriesPerChat records: the next operation of the caller cannot see more.
C6_EvictionSynchronous ==
  (/\ enableAutoCleanup
   /\ pc = "loop"
   /\ results # <<>>
   /\ results[Len(results)].t = "entry"
   /\ commands[results[Len(results)].of].type = "add_summary") =>
    Count(chatId) <= maxEntriesPerChat

\* C7 (as stated): the cleanupOldEntries call a create starts never removes the
\* record of that create, whatever the limit and the records stored before.
C7_Original == \A e \in hist.evicted : e.id # e.by

\* C7 (amended): with maxEntriesPerChat >= 1 the cleanupOldEntries call a create
\* starts never removes the record of that create.
C7_NewRecordSurvives ==
  maxEntriesPerChat >= 1 => \A e \in hist.evicted : e.id # e.by

\* with a limit of at least 1, the cleanup of a create has removed an older
\* record and has finished, and the record of the create is still stored
C7_Witness ==
  /\ maxEntriesPerChat >= 1
  /\ \E e \in hist.evicted :
       /\ e.id # e.by
       /\ HasId(entries, e.by)
       /\ cleanup[e.by].st = "idle"

\* the record saved last among those of a list: ids are handed out in the
\* order of the creates
LastSaved(list) ==
  list[CHOOSE i \in 1..Len(list) : \A j \in 1..Len(list) : list[j].id <= list[i].id]

\* C8: when the conversation holds several records saved under one key, a
\* retrieve_user_data by that key returns the value of the record saved last.
C8_LatestSavedWins ==
  [][(pc = "retrieve_key" /\ pc' = "loop" /\ Len(local.list) > 1) =>
       results'[Len(results')].value = LastSaved(local.list).context]_vars

\* C9: a retrieve_user_data by a key under which the conversation holds no
\* record gets the result {key, value: null}, not an error result, and the
\* directive changes neither the records nor the indexes.
C9_UnknownKeyYieldsNull ==
  [][/\ (/\ pc = "loop"
         /\ pc' = "retrieve_key"
         /\ query(entries, chatId,
                  [NoOptions EXCEPT !.category = UserDataCategory(Params.key)]) = {<<>>}) =>
           /\ local'.list = <<>>
           /\ UNCHANGED <<entries, index>>
     /\ (pc = "retrieve_key" /\ pc' # pc /\ local.list = <<>>) =>
           /\ pc' = "loop"
           /\ results' = Append(results, [of |-> idx, t |-> "keyed",
                                          key |-> Params.key, value |-> Null])
           /\ Emits("command_processed")
           /\ UNCHANGED <<entries, index>>]_vars

\* a key without record was retrieved while the conversation holds a record
\* saved under another key: the result carries value null
C9_Witness ==
  /\ pc = "loop"
  /\ results # <<>>
  /\ results[Len(results)] = [of |-> idx - 1, t |-> "keyed", key |-> "k2", value |-> Null]
  /\ \E i \in 1..Len(entries) : entries[i].category = UserDataCategory("k1")

\* C10: an edit_summary with an id the store does not hold gets the result
\* null, and the directive creates, modifies and removes no record and emits
\* no SUMMARY_UPDATED event.
C10_EditUnknownId ==
  [][/\ (/\ pc = "loop"
         /\ pc' = "update_got"
         /\ ~HasId(entries, Params.id)) =>
           /\ local' = [t |-> "null"]
           /\ entries' = entries
           /\ events' = events
     /\ (pc = "update_got" /\ pc' # pc /\ local.t = "null") =>
           /\ pc' = "loop"
           /\ results' = Append(results, [of |-> idx, t |-> "null"])
           /\ entries' = entries
           /\ Emits("command_processed")]_vars

\* an edit_summary of an id that was evicted got null while the store holds
\* another record
C10_Witness ==
  /\ pc = "loop"
  /\ results # <<>>
  /\ results[Len(results)] = [of |-> idx - 1, t |-> "null"]
  /\ entries # <<>>
  /\ \E e \in hist.evicted : e.id = commands[idx - 1].params.id

\* the score of a vector of the index against the text of the last search
ScoreOf(v) == cosineSimilarity(textToVector(local.text), textToVector(v.text))

\* C11: search and searchWithFilter return only entries whose score is at
\* least the threshold, in non-increasing order of score, at most `limit` of
\* them, and every entry returned is a candidate of the index.
C11_SearchResults ==
  local.t = "search" =>
    LET r == local.results IN
    /\ Len(r) <= local.limit
    /\ \A i \in 1..Len(r) :
         /\ AtLeast(ScoreOf(r[i]), local.threshold)
         /\ \E k \in 1..Len(local.of) : local.of[k] = r[i]
    /\ \A i, j \in 1..Len(r) : i < j => ~Greater(ScoreOf(r[j]), ScoreOf(r[i]))

\* a search over three candidates returned two of them, the better one first
\* although the index holds it second, and left out the one below the
\* threshold
C11_Witness ==
  /\ local.t = "search"
  /\ Len(local.of) = 3
  /\ Len(local.results) = 2
  /\ Greater(ScoreOf(local.results[1]), ScoreOf(local.results[2]))
  /\ local.results[1].summaryId > local.results[2].summaryId
  /\ \E k \in 1..3 : ~AtLeast(ScoreOf(local.of[k]), local.threshold)

\* the states in which a semantic lookup walks its hits
Searching == pc \in {"search_hits", "retrieve_hits"}

\* C12: searchSimilarSummaries and retrieve_user_data with a query, run
\* against conversation S, select and return only records of S, whatever
\* records and vectors the other conversations hold.
C12_ScopeIsolation ==
  Searching =>
    /\ \A i \in 1..Len(local.hits) : local.hits[i].chatId = chatId
    /\ \A i \in 1..Len(local.found) : local.found[i].chatId = chatId

\* a search of one conversation has returned a record while a stored record
\* of the other conversation has a vector that matches the query as well
C12_Witness ==
  /\ pc = "search_hits"
  /\ local.hits = <<>>
  /\ local.found # <<>>
  /\ \E i \in 1..Len(vectors) :
       /\ vectors[i].chatId # chatId
       /\ HasId(entries, vectors[i].summaryId)
       /\ ScoreAtLeastThreshold(textToVector("ab"), textToVector(vectors[i].text))

\* C13: a hit whose record is stored when it is looked up is returned as that
\* record (imported as a copy of it); a hit whose record was deleted or
\* evicted before is skipped, and nothing is returned or created for it.
C13_OrphanHitsSkipped ==
  [][ ( /\ pc \in {"search_hits", "retrieve_hits", "import_hits"}
        /\ local.hits # <<>>
        /\ local' # local
        /\ local'.t = "hits" )
      => LET id == Head(local.hits).summaryId
             stored == SelectSeq(entries, LAMBDA e : e.id = id)
         IN  IF stored = <<>>
             THEN /\ local'.found = local.found
                  /\ local'.hits = Tail(local.hits)
                  /\ entries' = entries
                  /\ vectors' = vectors
             ELSE IF pc = "import_hits"
             THEN /\ pc' = "import_saved"
                  /\ local'.entry.context = stored[1].context
                  /\ HasId(entries', local'.entry.id)
             ELSE /\ local'.found \in {Append(local.found, stored[1]), local.found}
                  /\ (local'.found = local.found => rags /\ ~IsUserData(stored[1].category))
    ]_vars

\* a search has skipped the hit of a vector whose record is no longer stored
C13_Witness ==
  /\ pc \in {"search_hits", "import_hits"}
  /\ local.hits = <<>>
  /\ local.found = <<>>
  /\ \E i \in 1..Len(vectors) :
       /\ vectors[i].chatId = chatId
       /\ ~HasId(entries, vectors[i].summaryId)
       /\ ScoreAtLeastThreshold(textToVector("ab"), textToVector(vectors[i].text))

\* the rank of a priority in the order high > medium > low > unset
PriorityRank(p) ==
  CASE p = "high" -> 3
    [] p = "medium" -> 2
    [] p = "low" -> 1
    [] OTHER -> 0

\* C14: a query sorted by priority lists the records by high > medium > low >
\* unset when descending (the default) and in the reverse order when ascending.
C14_PriorityOrder ==
  (local.t = "query" /\ local.options.sortBy = "priority") =>
    \A i, j \in 1..Len(local.results) :
      i < j =>
        IF local.options.sortDirection = "asc"
        THEN PriorityRank(local.results[i].priority) <= PriorityRank(local.results[j].priority)
        ELSE PriorityRank(local.results[i].priority) >= PriorityRank(local.results[j].priority)

\* the records of the queried conversation that satisfy every criterion the
\* options name
Satisfying(queryOptions) ==
  SelectSeq(entries, LAMBDA e :
    /\ e.chatId = local.chatId
    /\ (queryOptions.category # Absent => e.category = queryOptions.category)
    /\ (queryOptions.priority # Absent => e.priority = queryOptions.priority)
    /\ (queryOptions.createdBetween.set =>
          /\ e.createdAt >= queryOptions.createdBetween.start
          /\ e.createdAt <= queryOptions.createdBetween.end))

\* s and t hold the same records
SameRecords(s, t) ==
  /\ Len(s) = Len(t)
  /\ {s[i] : i \in 1..Len(s)} = {t[i] : i \in 1..Len(t)}

Supplied(queryOptions) ==
  [queryOptions EXCEPT !.category = IF @ = "" THEN Absent ELSE @,
                  !.priority = IF @ = "" THEN Absent ELSE @]

C16_RoundTrip ==
  pc = "reparsed" => local.commands = <<>>

\* the positions of the text that lie in the block of command c
BlockOf(c) == c.index..(c.lastIndex - 1)

\* C17: the commands are the blocks of the text from left to right: each
\* starts at a recognized opening tag and ends at the first closing tag of the
\* same kind after it, a block starts after the one before it has ended, and
\* every recognized opening tag that has a closing tag of its kind after it
\* starts a block or lies inside one.  Tags of other names, or of the same
\* name in another case, start no block.
C17_BlocksInOrder ==
  pc \in {"parsed", "removed", "reparsed"} =>
    LET tokens == Lex(text) IN
    /\ \A n \in 1..Len(commands) :
         LET c == commands[n] IN
         /\ c.type \in CommandTags
         /\ c.index \in 1..Len(tokens)
         /\ c.lastIndex - 1 \in (c.index + 1)..Len(tokens)
         /\ tokens[c.index] = Open(c.type)
         /\ tokens[c.lastIndex - 1] = Close(c.type)
         /\ \A k \in (c.index + 1)..(c.lastIndex - 2) : tokens[k] # Close(c.type)
         /\ c.content = SubSeq(tokens, c.index + 1, c.lastIndex - 2)
         /\ (n < Len(commands) => c.lastIndex <= commands[n + 1].index)
    /\ \A i \in 1..Len(tokens) :
         (\E tag \in CommandTags :
            /\ tokens[i] = Open(tag)
            /\ \E j \in (i + 1)..Len(tokens) : tokens[j] = Close(tag))
         => \E n \in 1..Len(commands) : i \in BlockOf(commands[n])

\* a text with a tag in upper case and one directive whose block holds a
\* complete block of the other kind
C17_Witness ==
  /\ pc = "parsed"
  /\ Len(commands) = 1
  /\ commands[1].type = "add_summary"
  /\ commands[1].content = <<Open("query_summary"), Close("query_summary")>>
  /\ \E i \in 1..Len(text) : text[i] = "<ADD_SUMMARY>"

\* the pieces of s at the positions in keep, in order
RECURSIVE Restrict(_, _)
Restrict(s, keep) ==
  IF s = <<>> THEN <<>>
  ELSE LET front == Restrict(SubSeq(s, 1, Len(s) - 1), keep) IN
       IF Len(s) \in keep THEN Append(front, s[Len(s)]) ELSE front

C19_Original ==
  (pc = "validated" /\ Command.type = "retrieve_user_data") =>
    (local.valid <=> (Truthy(Params.key) /\ ~Truthy(Params.query))
                       \/ (~Truthy(Params.key) /\ Truthy(Params.query)))

\* C19: retrieve_user_data is valid exactly when at least one of key and
\* query is there and not empty; with both it is valid, with neither invalid.
C19_KeyOrQuery ==
  (pc = "validated" /\ Command.type = "retrieve_user_data") =>
    /\ (Truthy(Params.key) /\ Truthy(Params.query) => local.valid)
    /\ (Truthy(Params.key) /\ ~Truthy(Params.query) => local.valid)
    /\ (~Truthy(Params.key) /\ Truthy(Params.query) => local.valid)
    /\ (~Truthy(Params.key) /\ ~Truthy(Params.query) => ~local.valid)

\* a retrieve_user_data with both a key and a query has passed validation
C19_Witness ==
  /\ pc = "validated"
  /\ Command.type = "retrieve_user_data"
  /\ Params.key = "k1"
  /\ Params.query = "ab"
  /\ local.valid

\* C20: a directive is valid exactly when its required fields are there:
\* add_summary a non-empty context; edit_summary an id and one of context,
\* category, priority; delete_summary an id; query_summary nothing;
\* save_user_data a key and a value, which may be the empty string.
C20_RequiredFields ==
  pc = "validated" =>
    /\ Command.type = "add_summary" =>
         (local.valid <=> Params.context \notin {Absent, ""})
    /\ Command.type = "edit_summary" =>
         (local.valid <=> /\ Params.id \notin {NoId, EmptyId}
                          /\ \/ Params.context \notin {Absent, ""}
                             \/ Params.category \notin {Absent, ""}
                             \/ Params.priority \notin {Absent, ""})
    /\ Command.type = "delete_summary" =>
         (local.valid <=> Params.id \notin {NoId, EmptyId})
    /\ Command.type = "query_summary" => local.valid
    /\ Command.type = "save_user_data" =>
         (local.valid <=> Params.key \notin {Absent, ""} /\ Params.value # Absent)

\* a save_user_data with a key and the empty string as value has passed
C20_Witness ==
  /\ pc = "validated"
  /\ Command.type = "save_user_data"
  /\ Params.key = "k1"
  /\ Params.value = ""
  /\ local.valid

Unrecognized(token) == token \in {"urgent", ""}

\* the record with the given id, in a store that holds it
RecordOf(E, id) == SelectSeq(E, LAMBDA e : e.id = id)[1]

\* C22: a directive whose priority is written as something else than low,
\* medium or high is parsed without a priority and validated as if no
\* priority were written; the record it creates has no priority, and the
\* record it edits keeps the priority it had.
C22_UnknownPriorityDropped ==
  /\ [](\A i \in 1..Len(commands) :
          Unrecognized(commands[i].content.priority) =>
            /\ commands[i].params.priority = Absent
            /\ validateCommand(commands[i])
                 = validateCommand(RawBlock(commands[i].type,
                                            [commands[i].content EXCEPT !.priority = Absent])))
  /\ [][ ( /\ pc = "loop"
           /\ pc' = "create_saved"
           /\ Unrecognized(Command.content.priority) )
         => /\ Len(entries') = Len(entries) + 1
            /\ entries'[Len(entries')].priority = Absent ]_vars
  /\ [][ ( /\ pc = "update_got"
           /\ pc' = "update_saved"
           /\ Unrecognized(Command.content.priority) )
         => /\ HasId(entries', Params.id)
            /\ RecordOf(entries', Params.id).priority = local.entry.priority
            /\ RecordOf(entries', Params.id).context = Params.context ]_vars

\* a record created with priority high has been edited by a directive that
\* writes an unknown priority, and still has priority high
C22_Witness ==
  /\ pc = "update_saved"
  /\ Unrecognized(Command.content.priority)
  /\ HasId(entries, Params.id)
  /\ RecordOf(entries, Params.id).priority = "high"
  /\ RecordOf(entries, Params.id).version = 2

\* C23: when a save_user_data or add_summary directive ends in the catch
\* block of processResponse, the record that directive set out to create (the
\* one with the last id handed out) is not in the store and has no vector in
\* either index.
C23_NoHalfUpdate ==
  [][ ( /\ pc = "thrown"
        /\ pc' = "loop"
        /\ Command.type \in {"save_user_data", "add_summary"} )
      => /\ ~HasId(entries', nextId - 1)
         /\ \A i \in 1..Len(vectors') : vectors'[i].summaryId # nextId - 1
         /\ \A i \in 1..Len(ragVectors') : ragVectors'[i].summaryId # nextId - 1 ]_vars

\* C24: a record that a capacity eviction has removed stays removed: no
\* update that was in progress puts it back.
C24_RemovedStaysRemoved ==
  \A e \in hist.evicted : ~HasId(entries, e.id)

\* both callers have made an update of record id that returned an entry
BothUpdated(id) ==
  \A c \in Callers :
    /\ pending[c].st = "done"
    /\ pending[c].op = "update"
    /\ pending[c].id = id
    /\ pending[c].result.t = "entry"

\* C25: when the updates of two callers to one record (created with version 1)
\* have both returned an entry, the stored record has version 3, and a field
\* that only one of them supplied has the value that caller supplied.
C25_NoLostUpdate ==
  \A id \in Ids :
    (BothUpdated(id) /\ HasId(entries, id)) =>
      /\ RecordOf(entries, id).version = 3
      /\ \A c \in Callers :
           /\ (pending[c].updates.context # Absent
                 /\ (\A d \in Callers \ {c} : pending[d].updates.context = Absent))
               => RecordOf(entries, id).context = pending[c].updates.context
           /\ (pending[c].updates.category # Absent
                 /\ (\A d \in Callers \ {c} : pending[d].updates.category = Absent))
               => RecordOf(entries, id).category = pending[c].updates.category

\* a retrieve_user_data by key is dispatched right after a save_user_data of
\* the same key, in the same text, that returned a record
RetrieveAfterSave ==
  /\ pc = "loop"
  /\ pc' = "retrieve_key"
  /\ idx > 1
  /\ commands[idx - 1].type = "save_user_data"
  /\ commands[idx - 1].params.key = Params.key
  /\ results # <<>>
  /\ results[Len(results)].of = idx - 1
  /\ results[Len(results)].t = "entry"

\* the retrieve finds the record of the save, and the index of keyed facts
\* holds its vector
SeesSaved ==
  LET id == results[Len(results)].id
      V == IF rags THEN ragVectors ELSE vectors
  IN  /\ \E i \in 1..Len(local'.list) : local'.list[i].id = id
      /\ \E i \in 1..Len(V) : V[i].summaryId = id

\* every directive that returned a record has its vector in the index when
\* the next directive starts
IndexedBeforeNext ==
  pc = "loop" =>
    \A k \in 1..Len(results) :
      results[k].t = "entry" /\ commands[results[k].of].type = "save_user_data" =>
        \E i \in 1..Len(IF rags THEN ragVectors ELSE vectors) :
          (IF rags THEN ragVectors ELSE vectors)[i].summaryId = results[k].id

C27_UsesGivenAdapter ==
  adapterOption # Null =>
    /\ pc # "idle" =>
         \A k \in 1..Len(results) :
           results[k].t = "entry" => HasId(Holds(adapterOption), results[k].id)
    /\ local.t = "summaries" =>
         local.list = getByChatId(Holds(adapterOption), local.chatId)

SummaryEvents == {"summary_added", "summary_updated", "summary_deleted"}

\* the event a directive of the type emits for the mutation it makes
SummaryEvent(type) ==
  CASE type \in {"add_summary", "save_user_data"} -> "summary_added"
    [] type = "edit_summary" -> "summary_updated"
    [] type = "delete_summary" -> "summary_deleted"
    [] OTHER -> "none"

\* the store mutation of the directive in progress has succeeded
Mutated ==
  \/ pc \in {"create_saved", "create_returned", "embedding", "update_saved"}
  \/ pc = "delete_called" /\ local.success

\* the calls in the log that handed listener l an event of these types for
\* directive i
Heard(log, l, i, types) ==
  { k \in 1..Len(log) : log[k].to = l /\ log[k].of = i /\ log[k].type \in types }

\* C28: when a call has returned, every registered listener, throwing or
\* not, was handed exactly one COMMAND_PROCESSED or ERROR event for every
\* parsed directive; a listener is handed the SUMMARY_* event of a directive
\* before its COMMAND_PROCESSED; a directive whose store mutation succeeded
\* ends with its SUMMARY_* event handed to every listener, and a SUMMARY_*
\* event is emitted only by a directive whose store mutation succeeded.
C28_Events ==
  /\ [](pc = "done" =>
          \A i \in 1..Len(commands), l \in 1..Len(eventListeners) :
            Cardinality(Heard(events, l, i, {"command_processed", "error"})) = 1)
  /\ [](\A i \in 1..Len(commands), l \in 1..Len(eventListeners) :
          \A k1 \in Heard(events, l, i, SummaryEvents),
             k2 \in Heard(events, l, i, {"command_processed"}) : k1 < k2)
  /\ [][ (Mutated /\ ~Mutated') =>
            \A l \in 1..Len(eventListeners) :
              Heard(events', l, idx, {SummaryEvent(Command.type)}) # {} ]_vars
  /\ [][ (\E k \in 1..Len(events') : k > Len(events) /\ events'[k].type \in SummaryEvents)
          => Mutated ]_vars

\* C29: a delete directive reports success exactly when a record with its id
\* was in the store; afterwards no record has that id and the other records
\* are the same, in the same order; for an unknown id the store is unchanged;
\* once a delete of the id has succeeded a further delete of it reports
\* false; and the result of the directive is what the delete reported.
C29_Delete ==
  /\ [][ (pc = "loop" /\ pc' = "delete_called") =>
           /\ local'.success = HasId(entries, Params.id)
           /\ ~HasId(entries', Params.id)
           /\ Len(entries') = Len(entries) - (IF HasId(entries, Params.id) THEN 1 ELSE 0)
           /\ \A i \in 1..Len(entries) :
                entries[i].id # Params.id =>
                  \E j \in 1..Len(entries') :
                    /\ entries'[j] = entries[i]
                    /\ j = i - (IF \E h \in 1..(i - 1) : entries[h].id = Params.id
                                THEN 1 ELSE 0)
           /\ (~HasId(entries, Params.id) => entries' = entries)
           /\ (hist.deleted => ~local'.success) ]_vars
  /\ [][ (pc = "delete_called" /\ pc' = "loop") =>
           /\ entries' = entries
           /\ results' = Append(results, [of |-> idx, t |-> "bool",
                                          success |-> local.success]) ]_vars

\* the second of two delete directives for the same id has reported false,
\* the first having removed the record
C29_Witness ==
  /\ pc = "delete_called"
  /\ idx = 2
  /\ commands[1].type = "delete_summary"
  /\ results = <<[of |-> 1, t |-> "bool", success |-> TRUE]>>
  /\ ~local.success

\* the records other than the one with the id, in store order
Others(E, id) == SelectSeq(E, LAMBDA e : e.id # id)

\* C30: the save of an edit directive leaves in the store, under the id of the
\* record the edit read, a record that differs from the one read only in the
\* fields the directive supplies among context, category and priority, in
\* modifiedAt and in version (one more): id, chatId, lineNumber and createdAt
\* are those read, a field not supplied keeps the value read, and the other
\* records of the store are the same.
C30_EditFrame ==
  [][ (pc = "update_got" /\ pc' = "update_saved") =>
        /\ HasId(entries', local.entry.id)
        /\ LET old == local.entry
               new == RecordOf(entries', local.entry.id)
           IN /\ new.id = Params.id
              /\ new.chatId = old.chatId
              /\ new.lineNumber = old.lineNumber
              /\ new.createdAt = old.createdAt
              /\ new.context = (IF Params.context = Absent THEN old.context
                                ELSE Params.context)
              /\ new.category = (IF Params.category = Absent THEN old.category
                                 ELSE Params.category)
              /\ new.priority = (IF Params.priority = Absent THEN old.priority
                                 ELSE Params.priority)
              /\ new.version = old.version + 1
              /\ new.modifiedAt >= old.modifiedAt
              /\ local'.entry = new
        /\ Others(entries', local.entry.id) = Others(entries, local.entry.id) ]_vars

\* an edit that supplies only a priority has been saved: the record keeps its
\* context, category and line number, and the other record is in the store
C30_Witness ==
  /\ pc = "update_saved"
  /\ Params.context = Absent
  /\ Params.category = Absent
  /\ Params.priority = "low"
  /\ Len(entries) = 2
  /\ HasId(entries, Params.id)
  /\ RecordOf(entries, Params.id).priority = "low"
  /\ RecordOf(entries, Params.id).category = "c1"
  /\ RecordOf(entries, Params.id).context = "ab"
  /\ RecordOf(entries, Params.id).lineNumber = 7
  /\ RecordOf(entries, Params.id).version = 2

\* C31: every record of the store has version at least 1 and createdAt not
\* later than modifiedAt, no two records of the store have the same id, and
\* no step lowers the version of a record that is in the store before and
\* after it.
C31_RecordInvariants ==
  /\ [](\A i \in 1..Len(entries) :
          /\ entries[i].version >= 1
          /\ entries[i].createdAt <= entries[i].modifiedAt
          /\ \A j \in 1..Len(entries) : entries[j].id = entries[i].id => j = i)
  /\ [][ \A id \in Ids :
           (HasId(entries, id) /\ HasId(entries', id)) =>
             RecordOf(entries', id).version >= RecordOf(entries, id).version ]_vars

\* the step ends an add_summary or save_user_data directive with the record
\* it created as result
CreateCompletes ==
  /\ idx <= Len(commands)
  /\ Command.type \in {"add_summary", "save_user_data"}
  /\ idx' = idx + 1
  /\ Len(results') = Len(results) + 1
  /\ results'[Len(results')].t = "entry"

\* index W is index V with one more vector, which describes the entry
AddsVectorOf(V, W, entry) ==
  /\ Len(W) = Len(V) + 1
  /\ SubSeq(W, 1, Len(V)) = V
  /\ W[Len(W)].text = entry.context
  /\ W[Len(W)].summaryId = entry.id
  /\ W[Len(W)].chatId = entry.chatId
  /\ W[Len(W)].category = entry.category
  /\ W[Len(W)].priority = entry.priority
  /\ W[Len(W)].createdAt = entry.createdAt
  /\ W[Len(W)].modifiedAt = entry.modifiedAt

\* C32: the step that ends an add_summary or save_user_data directive with a
\* record adds one vector entry to one of the two indexes and none to the
\* other; the entry carries the record's id, chatId, category, priority,
\* createdAt and modifiedAt; and no other step of a processResponse call
\* changes an index.
C32_OneVectorPerRecord ==
  [][ /\ CreateCompletes =>
           /\ results'[Len(results')].id = local.entry.id
           /\ \/ AddsVectorOf(vectors, vectors', local.entry) /\ ragVectors' = ragVectors
              \/ AddsVectorOf(ragVectors, ragVectors', local.entry) /\ vectors' = vectors
      /\ (vectors' # vectors \/ ragVectors' # ragVectors) => CreateCompletes ]_vars

\* a save_user_data directive has ended with a record, and the shared index
\* holds the vector entry of that record with its user_data category
C32_Witness ==
  /\ pc = "loop"
  /\ idx = 2
  /\ commands[1].type = "save_user_data"
  /\ results = <<[of |-> 1, t |-> "entry", id |-> 1]>>
  /\ Len(vectors) = 1
  /\ vectors[1].summaryId = 1
  /\ IsUserData(vectors[1].category)
  /\ vectors[1].priority = "medium"

\* a record of the store is given another value or leaves the store
ChangesRecord ==
  \E i \in 1..Len(entries) :
    \A j \in 1..Len(entries') : entries'[j] # entries[i]

\* C33: no step of a processResponse call or of an eviction removes or
\* rewrites a vector entry (each index keeps its entries, in place); a step
\* of an edit_summary or delete_summary directive, and every step that
\* updates, deletes or evicts a record, leaves both indexes as they are.
C33_IndexKept ==
  [][ /\ Len(vectors') >= Len(vectors)
      /\ SubSeq(vectors', 1, Len(vectors)) = vectors
      /\ Len(ragVectors') >= Len(ragVectors)
      /\ SubSeq(ragVectors', 1, Len(ragVectors)) = ragVectors
      /\ ( \/ ChangesRecord
           \/ /\ pc \notin {"idle", "done"}
              /\ idx <= Len(commands)
              /\ Command.type \in {"edit_summary", "delete_summary"}
              /\ (pc' # pc \/ idx' # idx) )
         => vectors' = vectors /\ ragVectors' = ragVectors ]_vars

\* a delete_summary has removed a record whose vector entry is still in the
\* shared index
C33_Witness ==
  /\ pc = "delete_called"
  /\ local.success
  /\ ~HasId(entries, Params.id)
  /\ \E i \in 1..Len(vectors) : vectors[i].summaryId = Params.id

\* C34: every record that a retrieve_user_data by query has collected for its
\* result belongs to the conversation of the call and has, as it is in the
\* store when it is read, a category that starts with user_data.
C34_OnlyUserDataOfScope ==
  (pc = "retrieve_hits" /\ local.t = "hits") =>
    \A i \in 1..Len(local.found) :
      /\ local.found[i].chatId = chatId
      /\ IsUserData(local.found[i].category)

\* importSummaries is at work
Importing == pc \in {"imports_next", "imports_saved"} /\ local.t = "imports"

\* what the call returns is one copy per selected record of the source
\* conversation, in order: a record of the target conversation with version
\* 1, the content, category, priority and line number of the original, and an
\* id that no record read from the source and no other copy has
ReturnsCopies ==
  LET selected == SelectSeq(local.sourceSummaries,
                            LAMBDA e : local.filter = Absent \/ e.priority = local.filter)
      copies == local.importedSummaries
  IN  /\ Len(copies) = Len(selected)
      /\ \A i \in 1..Len(copies) :
           /\ copies[i].chatId = local.target
           /\ copies[i].version = 1
           /\ copies[i].context = selected[i].context
           /\ copies[i].category = selected[i].category
           /\ copies[i].priority = selected[i].priority
           /\ copies[i].lineNumber = selected[i].lineNumber
           /\ \A j \in 1..Len(local.sourceSummaries) :
                copies[i].id # local.sourceSummaries[j].id
           /\ \A j \in 1..Len(copies) : copies[j].id = copies[i].id => j = i

\* a step of importSummaries keeps every record of the store as it is, and no
\* eviction started by a copy has removed a record read from the source
SourceKept ==
  /\ [][ (Importing /\ (pc' # pc \/ local' # local)) =>
           /\ Len(entries') >= Len(entries)
           /\ SubSeq(entries', 1, Len(entries)) = entries
           /\ (pc' = "imports_saved" =>
                 /\ Len(entries') = Len(entries) + 1
                 /\ entries'[Len(entries')] = local'.entry) ]_vars
  /\ [](Importing =>
          \A v \in hist.evicted :
            ~ /\ \E i \in 1..Len(local.importedSummaries) :
                   local.importedSummaries[i].id = v.by
              /\ \E j \in 1..Len(local.sourceSummaries) :
                   local.sourceSummaries[j].id = v.id)

\* C35 as stated, for any source and target conversation
C35_Original ==
  /\ [][ (Importing /\ pc' = "idle" /\ local.todo = <<>>) => ReturnsCopies ]_vars
  /\ SourceKept

\* C35: importSummaries from a source conversation into a different target
\* conversation returns one new record of the target per source record that
\* passes the filter (fresh id, version 1, same content, category, priority
\* and line number), every copy was saved in the store, and neither the call
\* nor an eviction it starts changes or removes a record of the source.
C35_ImportCopies ==
  /\ [][ (Importing /\ pc' = "idle" /\ local.todo = <<>> /\ local.source # local.target)
           => ReturnsCopies ]_vars
  /\ [][ (Importing /\ local.source # local.target /\ (pc' # pc \/ local' # local)) =>
           /\ Len(entries') >= Len(entries)
           /\ SubSeq(entries', 1, Len(entries)) = entries
           /\ (pc' = "imports_saved" =>
                 /\ Len(entries') = Len(entries) + 1
                 /\ entries'[Len(entries')] = local'.entry) ]_vars
  /\ [](Importing /\ local.source # local.target =>
          \A v \in hist.evicted :
            ~ /\ \E i \in 1..Len(local.importedSummaries) :
                   local.importedSummaries[i].id = v.by
              /\ \E j \in 1..Len(local.sourceSummaries) :
                   local.sourceSummaries[j].id = v.id)

\* an import with the filter priority = high is about to return: of the two
\* records of the source it has copied the one with priority high, with its
\* category and line number, into the other conversation
C35_Witness ==
  /\ pc = "imports_next"
  /\ local.t = "imports"
  /\ local.todo = <<>>
  /\ local.filter = "high"
  /\ local.source # local.target
  /\ Len(local.sourceSummaries) = 2
  /\ Len(local.importedSummaries) = 1
  /\ local.importedSummaries[1].priority = "high"
  /\ local.importedSummaries[1].category = "c1"
  /\ local.importedSummaries[1].lineNumber = 7
  /\ HasId(entries, local.importedSummaries[1].id)

\* the score of a record for the query of the directive
QueryScore(entry) == cosineSimilarity(textToVector(Params.query), textToVector(entry.context))

\* C36: the records a retrieve_user_data by query has collected when its loop
\* ends are at most N for a directive with <limit>N</limit>, N >= 0, at most
\* maxResults for a directive without <limit>, and in non-increasing order of
\* score.
C36_AtMostLimit ==
  (pc = "retrieve_hits" /\ local.t = "hits" /\ local.hits = <<>>) =>
    /\ Len(local.found) <= (IF Params.limit = NoLimit THEN MaxResults ELSE Params.limit)
    /\ \A i, j \in 1..Len(local.found) :
         i < j => ~Greater(QueryScore(local.found[j]), QueryScore(local.found[i]))

\* the places of the record with this id in a hierarchy: <<key, position>>
PlacesOf(h, id) ==
  { place \in UNION { {k} \X (1..Len(h[k].entries)) : k \in DOMAIN h } :
      h[place[1]].entries[place[2]].id = id }

\* every entry of the list is in the hierarchy once, under the key of its
\* category, and each key lists high before medium before low before unset
Organized(list, h) ==
  /\ \A i \in 1..Len(list) :
       PlacesOf(h, list[i].id) =
         { <<k, j>> \in PlacesOf(h, list[i].id) :
             /\ k = (IF list[i].category = Absent THEN "uncategorized" ELSE list[i].category)
             /\ h[k].entries[j] = list[i] }
  /\ \A i \in 1..Len(list) : Cardinality(PlacesOf(h, list[i].id)) = 1
  /\ \A k \in DOMAIN h :
       /\ \A j \in 1..Len(h[k].entries) : \E i \in 1..Len(list) : list[i] = h[k].entries[j]
       /\ \A i, j \in 1..Len(h[k].entries) :
            i < j => PriorityRank(h[k].entries[i].priority) >= PriorityRank(h[k].entries[j].priority)

\* C37: organizeHierarchy returns, for every list of records, a hierarchy in
\* which every record of the list appears exactly once, under its category
\* or under 'uncategorized' when it has none, with the entries of each key
\* in the order high, medium, low, unset.
C37_Partition ==
  local.t = "organize" =>
    /\ ~organizeHierarchy(local.list).thrown
    /\ Organized(local.list, organizeHierarchy(local.list).hierarchy)

\* a step of an edit_summary or delete_summary directive
InEditOrDelete ==
  /\ pc \notin {"idle", "done"}
  /\ idx <= Len(commands)
  /\ Command.type \in {"edit_summary", "delete_summary"}

\* C38: an edit_summary finds the record with its id in the whole store and
\* saves a new version of it, and a delete_summary removes the record with its
\* id, whatever conversation the record belongs to; every other step leaves
\* the records of the conversations other than that of the call as they are
\* and creates only records of the conversation of the call; and what a
\* query_summary or retrieve_user_data directive has read are records of the
\* conversation of the call.
C38_IdAlone ==
  /\ [][ /\ (pc = "loop" /\ pc' = "update_got") =>
              (local'.t = "null" <=> ~HasId(entries, Params.id))
         /\ (pc = "update_got" /\ pc' = "update_saved") =>
              /\ HasId(entries', Params.id)
              /\ RecordOf(entries', Params.id).version = local.entry.version + 1
              /\ RecordOf(entries', Params.id).chatId = local.entry.chatId
         /\ (pc = "loop" /\ pc' = "delete_called") =>
              /\ local'.success = HasId(entries, Params.id)
              /\ ~HasId(entries', Params.id)
         /\ ~InEditOrDelete =>
              /\ \A c \in Chats \ {chatId} :
                   getByChatId(entries', c) = getByChatId(entries, c)
              /\ \A i \in 1..Len(entries') :
                   ~HasId(entries, entries'[i].id) => entries'[i].chatId = chatId ]_vars
  /\ []( /\ pc \in {"query_called", "retrieve_key"} =>
              \A i \in 1..Len(local.list) : local.list[i].chatId = chatId
         /\ (pc = "retrieve_hits" /\ local.t = "hits") =>
              \A i \in 1..Len(local.found) : local.found[i].chatId = chatId )

\* an edit_summary of a call with one chatId has saved version 2 of a record
\* of the other conversation
C38_Witness ==
  /\ pc = "update_saved"
  /\ local.entry.chatId # chatId
  /\ local.entry.version = 2
  /\ RecordOf(entries, Params.id) = local.entry

\* the ids of the records an index holds a vector of
IndexedIds(V) == { V[i].summaryId : i \in 1..Len(V) }

\* a step of a directive of this type
InDirective(type) ==
  /\ pc \notin {"idle", "done"}
  /\ idx <= Len(commands)
  /\ Command.type = type

\* C39: with RAGs enabled, no step of a save_user_data directive changes the
\* shared index, and the step that indexes the saved record adds its vector
\* to the index of the RAGs manager; no step of an add_summary directive
\* changes the index of the RAGs manager; no record has a vector in both
\* indexes; the hits and the results of searchSimilarSummaries are not
\* records of the RAGs index; and the hits and the results of a
\* retrieve_user_data by query are not records of the shared index.
C39_SeparateIndexes ==
  /\ [][ rags =>
           /\ InDirective("save_user_data") => vectors' = vectors
           /\ (pc = "embedding" /\ pc' = "loop") =>
                /\ Len(ragVectors') = Len(ragVectors) + 1
                /\ ragVectors'[Len(ragVectors')].summaryId = local.entry.id
           /\ InDirective("add_summary") => ragVectors' = ragVectors ]_vars
  /\ [](rags =>
          /\ IndexedIds(vectors) \cap IndexedIds(ragVectors) = {}
          /\ (pc = "search_hits" /\ local.t = "hits") =>
               /\ IndexedIds(local.hits) \cap IndexedIds(ragVectors) = {}
               /\ \A i \in 1..Len(local.found) :
                    local.found[i].id \notin IndexedIds(ragVectors)
          /\ (pc = "retrieve_hits" /\ local.t = "hits") =>
               /\ IndexedIds(local.hits) \cap IndexedIds(vectors) = {}
               /\ \A i \in 1..Len(local.found) :
                    local.found[i].id \notin IndexedIds(vectors))

\* with RAGs enabled, searchSimilarSummaries has finished its loop without the
\* keyed fact of the conversation, which is in the store with the content
\* searched for and in the index of the RAGs manager
C39_Witness ==
  /\ rags
  /\ pc = "search_hits"
  /\ local.t = "hits"
  /\ local.hits = <<>>
  /\ \E i \in 1..Len(ragVectors) :
       /\ ragVectors[i].chatId = chatId
       /\ HasId(entries, ragVectors[i].summaryId)
       /\ RecordOf(entries, ragVectors[i].summaryId).context = "ab"
       /\ \A j \in 1..Len(local.found) : local.found[j].id # ragVectors[i].summaryId

====
